---------------------------- MODULE Spec2Model ----------------------------
(***************************************************************************)
(* A model of the ETL of src/etl.py (class DatabaseETL): the name          *)
(* normalizer, the region and period resolvers with their caches, the      *)
(* value aggregation of load_food_prices and load_cpi_data, and the stage  *)
(* sequence of execute_etl.                                                *)
(*                                                                         *)
(* Strings.  A Python string is modelled as a sequence of tokens: each of  *)
(* the separator characters "," "-" " " "=" is a token of its own, and     *)
(* every maximal run of other characters is one token ("Chicago", "IL").   *)
(* So "Peoria, IL" is <<"Peoria", ",", " ", "IL">>, and no two word tokens *)
(* are adjacent.  split, strip and the dictionary lookups of the source    *)
(* act on these sequences as they act on the characters.  Period strings   *)
(* ("M07") are modelled character by character, since replace('M', '')     *)
(* and int() look inside the word.                                         *)
(*                                                                         *)
(* Numbers.  Values are integers; the float division of the mean is        *)
(* modelled exactly, as a fraction in lowest terms (rounding is not        *)
(* modelled).                                                              *)
(***************************************************************************)
EXTENDS Integers, Sequences, FiniteSets, TLC

VARIABLES
    fn, arg, ret,            \* the pure function last applied, its input, its result
    pc,                      \* position of execute_etl
    connection,              \* self.connection: "none", "open" or "closed"
    region_map,              \* self.region_map: region name -> region_id
    period_map,              \* self.period_map: <<year, month>> -> period_id
    regions,                 \* table regions (rows of the open transaction included)
    time_periods,            \* table time_periods
    food_categories,         \* table food_categories: item_code -> item_name
    cpi_categories,          \* table cpi_categories: item_code -> item_name
    food_prices,             \* table food_prices: rows [key, value], the key being
                             \*   <<region_id, period_id, item_code>>, the value the price
    cpi_values,              \* table cpi_values: rows [key, value], the value being
                             \*   [value, base_period, base_value]
    state_food_sales,        \* table state_food_sales: rows [key, value], the key being
                             \*   <<region_id, period_id>>
    regional_income,         \* table regional_income: rows [key, value]
    state_income,            \* table state_income: rows [key, value]
    committed,               \* the tables as of the last commit
    auto_increment,          \* the AUTO_INCREMENT counters of regions and time_periods
    state_values,            \* the aggregation map of the running loader
    exc,                     \* the exception in flight, or NoExc
    raised,                  \* the exception execute_etl let out to its caller, or NoExc
    log,                     \* the records written to the logger, in order
    started,                 \* history: the stages started, in order
    completed,               \* history: the stages that returned normally, in order
    rows,                    \* history: the CSV rows the running loader has read, in order
    finished,                \* history: the aggregation map of the last finished loader
    call,                    \* history: the last region resolver call and what it did
    resolved,                \* history: label -> the ids its first resolver call returned
    upserts,                 \* history: <<stage, key>> -> upserts of a fact table issued
    dashboard,               \* the run of the script app_streamlit.py: the page, the
                             \*   position, the queries still to run, what is displayed,
                             \*   the query that raised, the exception that left the script
    data,                    \* the CSV files under data/ when they are fixed for the runs:
                             \*   loader -> its rows, in order
    previous,                \* history: the number of runs of execute_etl that have ended,
                             \*   and the database, the caches and the outcome at the end
                             \*   of the last of them
    other                    \* a second DatabaseETL on the same database: its
                             \*   connection, region_map and period_map

fnVars == <<fn, arg, ret>>

tableVars == <<regions, time_periods, food_categories, cpi_categories, food_prices,
               cpi_values, state_food_sales, regional_income, state_income>>

histVars == <<started, completed, rows, finished, call, resolved, upserts>>

etlVars == <<pc, connection, region_map, period_map, tableVars, committed,
             auto_increment, state_values, exc, raised, log, histVars>>

runVars == <<data, previous, other>>

vars == <<fnVars, etlVars, dashboard, runVars>>

----------------------------------------------------------------------------
(* Bounds of the model. *)

\* Longest label (in tokens) that the normalizer is applied to on its own.
MaxLabelLen == 6

\* Longest period string (in characters) that the period parser is applied to.
MaxPeriodLen == 3

----------------------------------------------------------------------------
(* Strings as token sequences. *)

\* The empty function / empty dict.
EmptyMap == <<>>

\* str.split(sep): the pieces between the occurrences of sep, in order.
RECURSIVE SplitFrom(_, _, _, _)
SplitFrom(s, sep, i, cur) ==
    IF i > Len(s) THEN <<cur>>
    ELSE IF s[i] = sep THEN <<cur>> \o SplitFrom(s, sep, i + 1, <<>>)
    ELSE SplitFrom(s, sep, i + 1, Append(cur, s[i]))

Split(s, sep) == SplitFrom(s, sep, 1, <<>>)

\* str.strip(): leading and trailing whitespace removed.
RECURSIVE LStrip(_)
LStrip(s) == IF s # <<>> /\ Head(s) = " " THEN LStrip(Tail(s)) ELSE s

RECURSIVE RStrip(_)
RStrip(s) ==
    IF s # <<>> /\ s[Len(s)] = " " THEN RStrip(SubSeq(s, 1, Len(s) - 1)) ELSE s

Strip(s) == RStrip(LStrip(s))

\* sep in s
Contains(s, sep) == \E i \in 1..Len(s) : s[i] = sep

UrbanAlaska == <<"Urban", " ", "Alaska">>
UrbanHawaii == <<"Urban", " ", "Hawaii">>

----------------------------------------------------------------------------
(* Name Normalizer. *)

\* The lookup table of _normalize_state_name, code -> state name.
state_map ==
    ("AK" :> <<"Alaska">>) @@ ("AL" :> <<"Alabama">>) @@ ("AR" :> <<"Arkansas">>) @@
    ("AZ" :> <<"Arizona">>) @@ ("CA" :> <<"California">>) @@ ("CO" :> <<"Colorado">>) @@
    ("CT" :> <<"Connecticut">>) @@
    ("DC" :> <<"District", " ", "of", " ", "Columbia">>) @@
    ("DE" :> <<"Delaware">>) @@ ("FL" :> <<"Florida">>) @@ ("GA" :> <<"Georgia">>) @@
    ("HI" :> <<"Hawaii">>) @@ ("IA" :> <<"Iowa">>) @@ ("ID" :> <<"Idaho">>) @@
    ("IL" :> <<"Illinois">>) @@ ("IN" :> <<"Indiana">>) @@ ("KS" :> <<"Kansas">>) @@
    ("KY" :> <<"Kentucky">>) @@ ("LA" :> <<"Louisiana">>) @@
    ("MA" :> <<"Massachusetts">>) @@ ("MD" :> <<"Maryland">>) @@ ("ME" :> <<"Maine">>) @@
    ("MI" :> <<"Michigan">>) @@ ("MN" :> <<"Minnesota">>) @@ ("MO" :> <<"Missouri">>) @@
    ("MS" :> <<"Mississippi">>) @@ ("MT" :> <<"Montana">>) @@
    ("NC" :> <<"North", " ", "Carolina">>) @@ ("ND" :> <<"North", " ", "Dakota">>) @@
    ("NE" :> <<"Nebraska">>) @@ ("NH" :> <<"New", " ", "Hampshire">>) @@
    ("NJ" :> <<"New", " ", "Jersey">>) @@ ("NM" :> <<"New", " ", "Mexico">>) @@
    ("NV" :> <<"Nevada">>) @@ ("NY" :> <<"New", " ", "York">>) @@ ("OH" :> <<"Ohio">>) @@
    ("OK" :> <<"Oklahoma">>) @@ ("OR" :> <<"Oregon">>) @@ ("PA" :> <<"Pennsylvania">>) @@
    ("RI" :> <<"Rhode", " ", "Island">>) @@ ("SC" :> <<"South", " ", "Carolina">>) @@
    ("SD" :> <<"South", " ", "Dakota">>) @@ ("TN" :> <<"Tennessee">>) @@
    ("TX" :> <<"Texas">>) @@ ("UT" :> <<"Utah">>) @@ ("VA" :> <<"Virginia">>) @@
    ("VT" :> <<"Vermont">>) @@ ("WA" :> <<"Washington">>) @@ ("WI" :> <<"Wisconsin">>) @@
    ("WV" :> <<"West", " ", "Virginia">>) @@ ("WY" :> <<"Wyoming">>)

\* [code.strip() for code in state_codes.split('-')]
StripEach(parts) == [i \in 1..Len(parts) |-> Strip(parts[i])]

\* A variant that forgets to strip the text after the comma and the codes.
extract_states_unstripped(area_name) ==
    IF area_name = UrbanAlaska THEN << <<"Alaska">> >>
    ELSE IF area_name = UrbanHawaii THEN << <<"Hawaii">> >>
    ELSE LET parts == Split(area_name, ",")
         IN  IF Len(parts) < 2 THEN <<>> ELSE Split(parts[2], "-")

\* _extract_states_from_area_name: the state codes of an area label.
extract_states_from_area_name(area_name) ==
    IF area_name = UrbanAlaska THEN << <<"Alaska">> >>
    ELSE IF area_name = UrbanHawaii THEN << <<"Hawaii">> >>
    ELSE LET parts == Split(area_name, ",")
         IN  IF Len(parts) < 2 THEN <<>>
             ELSE StripEach(Split(Strip(parts[2]), "-"))

\* A variant that answers "Unknown" for a code outside the table.
normalize_state_name_unknown(state_code) ==
    IF Len(state_code) = 1 /\ state_code[1] \in DOMAIN state_map
    THEN state_map[state_code[1]]
    ELSE <<"Unknown">>

\* _normalize_state_name: state_map.get(state_code, state_code).  A string is a
\* key of the table only if it is a single word token.
normalize_state_name(state_code) ==
    IF Len(state_code) = 1 /\ state_code[1] \in DOMAIN state_map
    THEN state_map[state_code[1]]
    ELSE state_code

\* The Name Normalizer: the label's codes, each expanded to its state name.
NormalizeLabel(area_name) ==
    LET codes == extract_states_from_area_name(area_name)
    IN  [i \in 1..Len(codes) |-> normalize_state_name(codes[i])]

----------------------------------------------------------------------------
(* Period parser. *)

Digits == {"0", "1", "2", "3", "4", "5", "6", "7", "8", "9"}

DigitVal ==
    ("0" :> 0) @@ ("1" :> 1) @@ ("2" :> 2) @@ ("3" :> 3) @@ ("4" :> 4) @@
    ("5" :> 5) @@ ("6" :> 6) @@ ("7" :> 7) @@ ("8" :> 8) @@ ("9" :> 9)

\* str.replace(c, ''): every occurrence of the character removed.
Remove(s, c) == SelectSeq(s, LAMBDA x : x # c)

RECURSIVE DecimalValue(_)
DecimalValue(s) ==
    IF s = <<>> THEN 0
    ELSE 10 * DecimalValue(SubSeq(s, 1, Len(s) - 1)) + DigitVal[s[Len(s)]]

\* int(s) on a string of the model's characters: a non-empty run of digits is a
\* number, anything else raises ValueError.
ParseInt(s) ==
    IF s # <<>> /\ \A i \in 1..Len(s) : s[i] \in Digits
    THEN [raises |-> FALSE, value |-> DecimalValue(s)]
    ELSE [raises |-> TRUE, value |-> 0]

\* A variant that answers 0 for an unknown format instead of raising.
parse_period_lenient(period_str) ==
    IF period_str # <<>> /\ Head(period_str) = "M"
    THEN ParseInt(Remove(period_str, "M"))
    ELSE IF period_str # <<>> /\ Head(period_str) = "S"
    THEN LET n == ParseInt(Remove(period_str, "S"))
         IN  [raises |-> n.raises, value |-> n.value * 6]
    ELSE [raises |-> FALSE, value |-> 0]

\* _parse_period: the month number of a period string, or ValueError.
parse_period(period_str) ==
    IF period_str # <<>> /\ Head(period_str) = "M"
    THEN ParseInt(Remove(period_str, "M"))
    ELSE IF period_str # <<>> /\ Head(period_str) = "S"
    THEN LET n == ParseInt(Remove(period_str, "S"))
         IN  [raises |-> n.raises, value |-> n.value * 6]
    ELSE [raises |-> TRUE, value |-> 0]

\* int(series['period'].replace('M', '')) of load_food_prices.
food_month(period_str) == ParseInt(Remove(period_str, "M"))

----------------------------------------------------------------------------
(* Values of the model. *)

\* Python's None, a float NaN and an absent dict entry are the empty sequence;
\* a present value v is <<v>>.
None == <<>>
NaN == <<>>
Some(v) == <<v>>

NoExc == [type |-> "none", stage |-> "none"]

\* The loaders of execute_etl, in the order of its body.
Stages ==
    <<"connect", "load_food_categories", "load_cpi_categories", "load_food_prices",
      "load_cpi_data", "load_state_food_sales", "load_regional_income",
      "load_state_income">>

StageIndex(s) == CHOOSE i \in 1..Len(Stages) : Stages[i] = s

\* A variant that passes over load_cpi_categories.
NextStageSkipping(s) ==
    IF s = "load_food_categories" THEN "load_food_prices"
    ELSE IF StageIndex(s) < Len(Stages) THEN Stages[StageIndex(s) + 1] ELSE "finally"

\* What follows stage s in the try block: the next loader, or the finally block.
NextStage(s) ==
    IF StageIndex(s) < Len(Stages) THEN Stages[StageIndex(s) + 1] ELSE "finally"

RECURSIVE SumSeq(_)
SumSeq(s) == IF s = <<>> THEN 0 ELSE Head(s) + SumSeq(Tail(s))

RECURSIVE GCD(_, _)
GCD(a, b) == IF b = 0 THEN a ELSE GCD(b, a % b)

\* a / b as a fraction in lowest terms, <<numerator, denominator>> (b > 0, a >= 0).
Fraction(a, b) == LET g == GCD(a, b) IN <<a \div g, b \div g>>

\* d[k] = v on a dict modelled as a function.
Put(d, k, v) == [x \in DOMAIN d \cup {k} |-> IF x = k THEN v ELSE d[x]]

----------------------------------------------------------------------------
(* The database, as the statements of the ETL see it. *)

\* The tables of one database state, as a record.
Snapshot(r, t, fc, cc, fp, cv, sfs, ri, si) ==
    [regions |-> r, time_periods |-> t, food_categories |-> fc, cpi_categories |-> cc,
     food_prices |-> fp, cpi_values |-> cv, state_food_sales |-> sfs,
     regional_income |-> ri, state_income |-> si]

EmptyDatabase ==
    Snapshot({}, {}, EmptyMap, EmptyMap, {}, {}, {}, {}, {})

\* The unique keys of regions and time_periods, as the schema of the database
\* has them: region_name, and (year, month) with an absent month as a value.
DuplicateRegion(row, name) == row.name = name

DuplicatePeriod(row, year, month) == row.year = year /\ row.month = month

\* A variant of the INSERT into regions whose ON DUPLICATE KEY UPDATE clause does
\* not pass the id of the existing row to LAST_INSERT_ID: lastrowid is then 0
\* when the row exists.
InsertRegionNoLastInsertId(table, next_id, name, type) ==
    IF \E row \in table : DuplicateRegion(row, name)
    THEN [table |-> table, next_id |-> next_id, lastrowid |-> 0]
    ELSE [table |-> table \cup {[id |-> next_id, name |-> name, type |-> type]},
          next_id |-> next_id + 1,
          lastrowid |-> next_id]

\* A variant of the INSERT into regions whose ON DUPLICATE KEY UPDATE clause also
\* sets region_type=VALUES(region_type): the row that exists takes the new type.
InsertRegionUpdatingType(table, next_id, name, type) ==
    IF \E row \in table : DuplicateRegion(row, name)
    THEN LET old == CHOOSE row \in table : DuplicateRegion(row, name)
         IN  [table |-> (table \ {old}) \cup {[old EXCEPT !.type = type]},
              next_id |-> next_id, lastrowid |-> old.id]
    ELSE [table |-> table \cup {[id |-> next_id, name |-> name, type |-> type]},
          next_id |-> next_id + 1,
          lastrowid |-> next_id]

\* INSERT INTO regions (region_name, region_type) VALUES (name, type)
\* ON DUPLICATE KEY UPDATE region_id=LAST_INSERT_ID(region_id); cursor.lastrowid.
\* region_name is the table's unique key: a duplicate leaves the row as it is and
\* reports its id.  next_id is the table's AUTO_INCREMENT counter.
InsertRegion(table, next_id, name, type) ==
    IF \E row \in table : DuplicateRegion(row, name)
    THEN [table |-> table, next_id |-> next_id,
          lastrowid |-> (CHOOSE row \in table : DuplicateRegion(row, name)).id]
    ELSE [table |-> table \cup {[id |-> next_id, name |-> name, type |-> type]},
          next_id |-> next_id + 1,
          lastrowid |-> next_id]

\* A variant of the INSERT into time_periods under a unique key that, as for SQL
\* NULLs, never finds a row without a month to be a duplicate.
InsertPeriodNullsDistinct(table, next_id, year, month, period_type) ==
    IF month # None /\ \E row \in table : row.year = year /\ row.month = month
    THEN [table |-> table, next_id |-> next_id,
          lastrowid |-> (CHOOSE row \in table : row.year = year /\ row.month = month).id]
    ELSE [table |-> table \cup {[id |-> next_id, year |-> year, month |-> month,
                                 period_type |-> period_type]},
          next_id |-> next_id + 1,
          lastrowid |-> next_id]

\* INSERT INTO time_periods (year, month, period_type) VALUES (...)
\* ON DUPLICATE KEY UPDATE period_id=LAST_INSERT_ID(period_id); cursor.lastrowid.
\* (year, month) is the table's unique key.
InsertPeriod(table, next_id, year, month, period_type) ==
    IF \E row \in table : DuplicatePeriod(row, year, month)
    THEN [table |-> table, next_id |-> next_id,
          lastrowid |-> (CHOOSE row \in table : DuplicatePeriod(row, year, month)).id]
    ELSE [table |-> table \cup {[id |-> next_id, year |-> year, month |-> month,
                                 period_type |-> period_type]},
          next_id |-> next_id + 1,
          lastrowid |-> next_id]

\* The keys of a fact table, and the value stored under a key that has a row.
Keys(table) == {row.key : row \in table}

Stored(table, key) == (CHOOSE row \in table : row.key = key).value

\* The unique key of a fact table (declared in the schema): a row is a duplicate
\* of a key when its key columns, (region_id, period_id, item_code) or
\* (region_id, period_id), have the values of the key.
Duplicate(row, key) == row.key = key

\* A variant of the statement without its ON DUPLICATE KEY clause taking effect:
\* the new row is added whatever the table holds.
InsertAlways(table, key, value) == table \cup {[key |-> key, value |-> value]}

\* INSERT INTO <fact table> (<key columns>, <value columns>) VALUES (...)
\* ON DUPLICATE KEY UPDATE <value columns>=...: the row of an existing key gets
\* the new values, a new key gets a row.
Upsert(table, key, value) ==
    {row \in table : ~Duplicate(row, key)} \cup {[key |-> key, value |-> value]}

\* One upsert for each key of the map m, with the value m gives it.
RECURSIVE UpsertMap(_, _)
UpsertMap(table, m) ==
    IF DOMAIN m = {} THEN table
    ELSE LET key == CHOOSE k \in DOMAIN m : TRUE
         IN  UpsertMap(Upsert(table, key, m[key]),
                       [k \in DOMAIN m \ {key} |-> m[k]])

\* A variant that keeps one statement per key, however often it was executed.
CountUpsertsOnce(counts, stage, keys) ==
    [sk \in DOMAIN counts \cup {<<stage, key>> : key \in keys} |-> 1]

\* The history of upserts after one more upsert of `stage` for each of `keys`.
CountUpserts(counts, stage, keys) ==
    [sk \in DOMAIN counts \cup {<<stage, key>> : key \in keys} |->
        (IF sk \in DOMAIN counts THEN counts[sk] ELSE 0)
            + (IF sk[1] = stage /\ sk[2] \in keys THEN 1 ELSE 0)]

----------------------------------------------------------------------------
(* Region Resolver and Period Resolver. *)

\* The state of a resolver call: the ids collected so far, the cache, the table
\* with its AUTO_INCREMENT counter, and the number of INSERT statements issued.
ResolverState(ids, rm, table, next_id, inserts) ==
    [ids |-> ids, region_map |-> rm, regions |-> table, next_id |-> next_id,
     inserts |-> inserts]

\* A variant that creates the row but never stores the new id in the cache.
ResolveStateStepUncached(st, state_code) ==
    LET state_name == normalize_state_name(state_code)
        ins == InsertRegion(st.regions, st.next_id, state_name, "state")
    IN  ResolverState(Append(st.ids, ins.lastrowid), st.region_map, ins.table,
                      ins.next_id, st.inserts + 1)

\* A variant of the state branch that stores and caches the code as it is.
ResolveStateStepRaw(st, state_code) ==
    IF state_code \in DOMAIN st.region_map
    THEN ResolverState(Append(st.ids, st.region_map[state_code]),
                       st.region_map, st.regions, st.next_id, st.inserts)
    ELSE LET ins == InsertRegion(st.regions, st.next_id, state_code, "state")
         IN  ResolverState(Append(st.ids, ins.lastrowid),
                           Put(st.region_map, state_code, ins.lastrowid),
                           ins.table, ins.next_id, st.inserts + 1)

\* One pass of the loop over state_codes (lines 84-97).
ResolveStateStep(st, state_code) ==
    LET state_name == normalize_state_name(state_code)
    IN  IF state_name \in DOMAIN st.region_map
        THEN ResolverState(Append(st.ids, st.region_map[state_name]),
                           st.region_map, st.regions, st.next_id, st.inserts)
        ELSE LET ins == InsertRegion(st.regions, st.next_id, state_name, "state")
             IN  ResolverState(Append(st.ids, ins.lastrowid),
                               Put(st.region_map, state_name, ins.lastrowid),
                               ins.table, ins.next_id, st.inserts + 1)

RECURSIVE ResolveStates(_, _)
ResolveStates(st, state_codes) ==
    IF state_codes = <<>> THEN st
    ELSE ResolveStates(ResolveStateStep(st, Head(state_codes)), Tail(state_codes))

\* A variant of the region resolver that looks for state codes only in labels
\* with a comma.
get_or_create_region_commas_only(rm, table, next_id, region_name, region_type) ==
    LET state_codes ==
            IF Contains(region_name, ",")
            THEN extract_states_from_area_name(region_name)
            ELSE <<>>
    IN  IF state_codes # <<>>
        THEN ResolveStates(ResolverState(<<>>, rm, table, next_id, 0), state_codes)
        ELSE IF region_name \in DOMAIN rm
        THEN ResolverState(<<rm[region_name]>>, rm, table, next_id, 0)
        ELSE LET ins == InsertRegion(table, next_id, region_name, region_type)
             IN  ResolverState(<<ins.lastrowid>>, Put(rm, region_name, ins.lastrowid),
                               ins.table, ins.next_id, 1)

\* A variant of the region resolver that expands a name without state codes as
\* if it were a state code.
get_or_create_region_normalizing(rm, table, next_id, region_name, region_type) ==
    LET state_codes ==
            IF Contains(region_name, ",") \/ region_name \in {UrbanAlaska, UrbanHawaii}
            THEN extract_states_from_area_name(region_name)
            ELSE <<>>
        name == normalize_state_name(region_name)
    IN  IF state_codes # <<>>
        THEN ResolveStates(ResolverState(<<>>, rm, table, next_id, 0), state_codes)
        ELSE IF name \in DOMAIN rm
        THEN ResolverState(<<rm[name]>>, rm, table, next_id, 0)
        ELSE LET ins == InsertRegion(table, next_id, name, region_type)
             IN  ResolverState(<<ins.lastrowid>>, Put(rm, name, ins.lastrowid),
                               ins.table, ins.next_id, 1)

\* _get_or_create_region: the ids of a label's regions, with the cache and the
\* table as the call leaves them.
get_or_create_region(rm, table, next_id, region_name, region_type) ==
    LET state_codes ==
            IF Contains(region_name, ",") \/ region_name \in {UrbanAlaska, UrbanHawaii}
            THEN extract_states_from_area_name(region_name)
            ELSE <<>>
    IN  IF state_codes # <<>>
        THEN ResolveStates(ResolverState(<<>>, rm, table, next_id, 0), state_codes)
        ELSE IF region_name \in DOMAIN rm
        THEN ResolverState(<<rm[region_name]>>, rm, table, next_id, 0)
        ELSE LET ins == InsertRegion(table, next_id, region_name, region_type)
             IN  ResolverState(<<ins.lastrowid>>, Put(rm, region_name, ins.lastrowid),
                               ins.table, ins.next_id, 1)

\* A variant of the period resolver whose cache is keyed by the year alone.
get_or_create_period_by_year(pm, table, next_id, year, month) ==
    LET period_key == <<year, None>>
    IN  IF period_key \in DOMAIN pm
        THEN [id |-> pm[period_key], period_map |-> pm, time_periods |-> table,
              next_id |-> next_id]
        ELSE LET period_type ==
                     IF month # None /\ month[1] # 0 THEN "monthly" ELSE "yearly"
                 ins == InsertPeriod(table, next_id, year, month, period_type)
             IN  [id |-> ins.lastrowid,
                  period_map |-> Put(pm, period_key, ins.lastrowid),
                  time_periods |-> ins.table, next_id |-> ins.next_id]

\* _get_or_create_period: the id of (year, month), with the cache and the table as
\* the call leaves them.  month is None or Some(m); "if month" is false for None
\* and for 0.
get_or_create_period(pm, table, next_id, year, month) ==
    LET period_key == <<year, month>>
    IN  IF period_key \in DOMAIN pm
        THEN [id |-> pm[period_key], period_map |-> pm, time_periods |-> table,
              next_id |-> next_id]
        ELSE LET period_type ==
                     IF month # None /\ month[1] # 0 THEN "monthly" ELSE "yearly"
                 ins == InsertPeriod(table, next_id, year, month, period_type)
             IN  [id |-> ins.lastrowid,
                  period_map |-> Put(pm, period_key, ins.lastrowid),
                  time_periods |-> ins.table, next_id |-> ins.next_id]

----------------------------------------------------------------------------
(* Value Aggregator. *)

\* A CSV cell of a value column: a number, an empty cell, or other text.
Cell(kind, n) == [kind |-> kind, n |-> n]
Number(n) == Cell("number", n)
Missing == Cell("missing", 0)
Text == Cell("text", 0)

\* pd.to_numeric(column, errors='coerce'): what is no number becomes NaN.
to_numeric(cell) == IF cell.kind = "number" THEN Some(cell.n) ELSE NaN

\* A variant of the check that lets every value through.
isna_never(v) == FALSE

\* pd.isna
isna(v) == v = NaN

\* state_values[key].append(entry), the list created when the key is new.
AddValue(sv, key, entry) ==
    Put(sv, key, IF key \in DOMAIN sv THEN Append(sv[key], entry) ELSE <<entry>>)

\* A variant of the loop that appends to the monthly key only.
RECURSIVE AppendMonthlyOnly(_, _, _, _, _, _)
AppendMonthlyOnly(sv, region_ids, monthly_period_id, yearly_period_id, item_code, entry) ==
    IF region_ids = <<>> THEN sv
    ELSE AppendMonthlyOnly(
             AddValue(sv, <<Head(region_ids), monthly_period_id, item_code>>, entry),
             Tail(region_ids), monthly_period_id, yearly_period_id, item_code, entry)

\* The loop over region_ids (lines 198-207 and 264-273): the entry is appended to
\* the monthly and to the yearly key of each region id.
RECURSIVE AppendForRegions(_, _, _, _, _, _)
AppendForRegions(sv, region_ids, monthly_period_id, yearly_period_id, item_code, entry) ==
    IF region_ids = <<>> THEN sv
    ELSE AppendForRegions(
             AddValue(AddValue(sv, <<Head(region_ids), monthly_period_id, item_code>>, entry),
                      <<Head(region_ids), yearly_period_id, item_code>>, entry),
             Tail(region_ids), monthly_period_id, yearly_period_id, item_code, entry)

\* A variant of the mean that divides by one less than the number of values.
MeanOffByOne(values) ==
    IF \E i \in 1..Len(values) : values[i] = NaN THEN NaN
    ELSE IF Len(values) = 1 THEN Some(Fraction(values[1][1], 1))
    ELSE Some(Fraction(SumSeq([i \in 1..Len(values) |-> values[i][1]]), Len(values) - 1))

\* sum(values) / len(values) on a non-empty list of floats; NaN if any value is.
Mean(values) ==
    IF \E i \in 1..Len(values) : values[i] = NaN THEN NaN
    ELSE Some(Fraction(SumSeq([i \in 1..Len(values) |-> values[i][1]]), Len(values)))

\* The keys of the dict base_periods (lines 283-287) in insertion order: the
\* distinct (base_period, base_value) pairs in the order they are first seen.
RECURSIVE FirstSeen(_, _)
FirstSeen(pairs, seen) ==
    IF pairs = <<>> THEN seen
    ELSE FirstSeen(Tail(pairs),
                   IF \E i \in 1..Len(seen) : seen[i] = Head(pairs)
                   THEN seen ELSE Append(seen, Head(pairs)))

Occurrences(pairs, p) == Cardinality({i \in 1..Len(pairs) : pairs[i] = p})

\* A variant that keeps the last of the pairs with the highest count.
MostCommonLast(pairs) ==
    LET keys == FirstSeen(pairs, <<>>)
        best == CHOOSE i \in 1..Len(keys) :
                    /\ \A j \in 1..Len(keys) :
                           Occurrences(pairs, keys[j]) <= Occurrences(pairs, keys[i])
                    /\ \A j \in (i + 1)..Len(keys) :
                           Occurrences(pairs, keys[j]) < Occurrences(pairs, keys[i])
    IN  keys[best]

\* max(base_periods.items(), key=lambda x: x[1])[0]: max() keeps the first of the
\* items with the highest count.
MostCommon(pairs) ==
    LET keys == FirstSeen(pairs, <<>>)
        best == CHOOSE i \in 1..Len(keys) :
                    /\ \A j \in 1..Len(keys) :
                           Occurrences(pairs, keys[j]) <= Occurrences(pairs, keys[i])
                    /\ \A j \in 1..(i - 1) :
                           Occurrences(pairs, keys[j]) < Occurrences(pairs, keys[i])
    IN  keys[best]

\* The row written to cpi_values for one key (lines 281-288).
CpiAggregate(value_tuples) ==
    LET pairs == [i \in 1..Len(value_tuples) |->
                      <<value_tuples[i].base_period, value_tuples[i].base_value>>]
        best == MostCommon(pairs)
    IN  [value |-> Mean([i \in 1..Len(value_tuples) |-> value_tuples[i].value]),
         base_period |-> best[1], base_value |-> best[2]]

\* The numbers that float() reads from a word of a base_period annotation.
NumberWords == ("100" :> 100) @@ ("1" :> 1)

\* float(s.strip()) on a token string.
ParseFloat(s) ==
    IF Len(Strip(s)) = 1 /\ Strip(s)[1] \in DOMAIN NumberWords
    THEN [raises |-> FALSE, value |-> NumberWords[Strip(s)[1]]]
    ELSE [raises |-> TRUE, value |-> 0]

\* Lines 249-251: base_period and base_value of an annotation like "1982-84=100".
\* A missing "=" is an IndexError, an unreadable number a ValueError.
ParseBasePeriod(annotation) ==
    LET base_period_parts == Split(annotation, "=")
    IN  IF Len(base_period_parts) < 2
        THEN [raises |-> "IndexError", base_period |-> <<>>, base_value |-> 0]
        ELSE IF ParseFloat(base_period_parts[2]).raises
        THEN [raises |-> "ValueError", base_period |-> <<>>, base_value |-> 0]
        ELSE [raises |-> "none", base_period |-> Strip(base_period_parts[1]),
              base_value |-> ParseFloat(base_period_parts[2]).value]

----------------------------------------------------------------------------
(* Inputs. *)

Chicago == <<"Chicago", "-", "Naperville", ",", " ", "IL", "-", "IN", "-", "WI">>
Peoria == <<"Peoria", ",", " ", "IL">>
Midwest == <<"Midwest">>
Illinois == <<"Illinois">>
Springfield == <<"Springfield", ",", " ", "IL", "-", "IL">>

\* The tokens of the labels the normalizer is applied to on its own.
LabelTokens == {"City", "IL", "IN", "XX", ",", "-", " "}
Separators == {",", "-", " ", "="}

\* No two word tokens are adjacent (they would be one word).
WellFormed(s) ==
    \A i \in 1..(Len(s) - 1) : s[i] \in Separators \/ s[i + 1] \in Separators

Labels ==
    {s \in UNION {[1..n -> LabelTokens] : n \in 0..MaxLabelLen} : WellFormed(s)}
        \cup {Chicago, Peoria, Midwest, Illinois, UrbanAlaska, UrbanHawaii}

PeriodChars == {"M", "S", "A", "0", "1", "7"}

PeriodStrings == UNION {[1..n -> PeriodChars] : n \in 0..MaxPeriodLen}

----------------------------------------------------------------------------
(* Initial state: a DatabaseETL as __init__ leaves it, and an empty database. *)

\* The ETL part of the initial state.
EtlInit ==
    /\ pc = "idle"
    /\ connection = "none"
    /\ region_map = EmptyMap
    /\ period_map = EmptyMap
    /\ regions = {} /\ time_periods = {}
    /\ food_categories = EmptyMap /\ cpi_categories = EmptyMap
    /\ food_prices = {} /\ cpi_values = {}
    /\ state_food_sales = {} /\ regional_income = {}
    /\ state_income = {}
    /\ committed = EmptyDatabase
    /\ auto_increment = [regions |-> 1, time_periods |-> 1]
    /\ state_values = EmptyMap
    /\ exc = NoExc /\ raised = NoExc
    /\ log = <<>>
    /\ started = <<>> /\ completed = <<>> /\ rows = <<>>
    /\ finished = [stage |-> "none", state_values |-> EmptyMap, rows |-> <<>>]
    /\ call = [name |-> <<>>, type |-> "none", made |-> FALSE, repeat |-> FALSE, ids |-> <<>>,
               inserts |-> 0, created |-> 0]
    /\ resolved = EmptyMap
    /\ upserts = EmptyMap

\* The script app_streamlit.py before its first run.
DashboardInit ==
    dashboard = [page |-> "none", pc |-> "select", todo |-> <<>>, shown |-> <<>>,
                 failed |-> "none", escaped |-> NoExc]

\* No run of execute_etl has ended yet.
NoRun ==
    [runs |-> 0, database |-> EmptyDatabase, region_map |-> EmptyMap,
     period_map |-> EmptyMap, raised |-> NoExc]

\* The CSV files are not fixed: a loader reads any rows of its input set.
AnyCsv == EmptyMap

\* A DatabaseETL as its constructor leaves it.
NoOther == [connection |-> "none", region_map |-> EmptyMap, period_map |-> EmptyMap]

Init ==
    /\ fn = "none" /\ arg = <<>> /\ ret = <<>>
    /\ EtlInit
    /\ DashboardInit
    /\ data = AnyCsv
    /\ previous = NoRun
    /\ other = NoOther

\* An input is drawn; the function has not been applied yet.
InitFn ==
    /\ \/ fn = "call_normalizer" /\ arg \in Labels
       \/ fn = "call_parse_period" /\ arg \in PeriodStrings
    /\ ret = <<>>
    /\ EtlInit
    /\ DashboardInit
    /\ data = AnyCsv
    /\ previous = NoRun
    /\ other = NoOther

ApplyNormalizer ==
    /\ fn = "call_normalizer"
    /\ fn' = "normalizer"
    /\ ret' = NormalizeLabel(arg)
    /\ UNCHANGED <<arg, etlVars, dashboard, runVars>>

ApplyParsePeriod ==
    /\ fn = "call_parse_period"
    /\ fn' = "parse_period"
    /\ ret' = parse_period(arg)
    /\ UNCHANGED <<arg, etlVars, dashboard, runVars>>

NextFn == ApplyNormalizer \/ ApplyParsePeriod

SpecFn == InitFn /\ [][NextFn]_vars

----------------------------------------------------------------------------
(* execute_etl: the steps shared by every run. *)

\* Rows of one CSV file, at most, in the runs that exercise every stage.
MaxRows == 2

\* Rows of a series CSV, at most, in the runs that exercise the two series loaders.
MaxSeriesRows == 3

\* Rows of the CPI series CSV, at most, in the runs that exercise the choice of the
\* base period.
MaxCpiRows == 4

otherTables == <<food_categories, cpi_categories, food_prices, cpi_values,
                 state_food_sales, regional_income, state_income>>

resolverVars == <<region_map, period_map, regions, time_periods, auto_increment>>

flowVars == <<pc, exc, started, completed>>

\* A variant of the loaders' commit that leaves the commit to a later step.
CommitDeferred == UNCHANGED committed

\* self.connection.commit(): the tables of the next state become the committed ones.
Commit ==
    committed' = Snapshot(regions', time_periods', food_categories', cpi_categories',
                          food_prices', cpi_values', state_food_sales',
                          regional_income', state_income')

\* A loader returns and execute_etl calls the next one (or falls into finally).
Return ==
    /\ completed' = Append(completed, pc)
    /\ pc' = NextStage(pc)
    /\ started' = IF NextStage(pc) = "finally" THEN started
                  ELSE Append(started, NextStage(pc))
    /\ exc' = exc

\* An exception leaves the running stage: control goes to the except clause.
Raise(type) ==
    /\ exc' = [type |-> type, stage |-> pc]
    /\ pc' = "except"
    /\ UNCHANGED <<started, completed>>

\* What the history keeps of a region resolver call.
RecordCall(name, type, res) ==
    /\ call' = [name |-> name, type |-> type, made |-> TRUE, repeat |-> name \in DOMAIN resolved,
                ids |-> res.ids, inserts |-> res.inserts,
                created |-> Cardinality(res.regions) - Cardinality(regions)]
    /\ resolved' = IF name \in DOMAIN resolved THEN resolved
                   ELSE Put(resolved, name, res.ids)

\* What the history keeps of a row read by a loader.
RowRecord(row, outcome, appended) ==
    [stage |-> pc, row |-> row, outcome |-> outcome, appended |-> appended]

RECURSIVE SumLens(_, _)
SumLens(sv, keys) ==
    IF keys = {} THEN 0
    ELSE LET k == CHOOSE x \in keys : TRUE
         IN  Len(sv[k]) + SumLens(sv, keys \ {k})

\* The number of entries of an aggregation map, all lists together.
Entries(sv) == SumLens(sv, DOMAIN sv)

\* execute_etl is called: the try block is entered and connect is called.
execute_etl ==
    /\ pc = "idle"
    /\ pc' = "connect"
    /\ started' = <<"connect">>
    /\ UNCHANGED <<fnVars, runVars, dashboard, upserts, connection, resolverVars, otherTables, committed,
                   state_values, exc, raised, log, completed, rows, finished, call,
                   resolved>>

\* connect: mysql.connector.connect succeeds ...
connect_ok ==
    /\ pc = "connect"
    /\ connection' = "open"
    /\ log' = Append(log, [level |-> "info", what |-> "connected", exc |-> NoExc])
    /\ Return
    /\ UNCHANGED <<fnVars, runVars, dashboard, upserts, resolverVars, otherTables, committed, state_values, raised,
                   rows, finished, call, resolved>>

\* ... or raises Error, which connect logs and re-raises.
connect_fails ==
    /\ pc = "connect"
    /\ Raise("Error")
    /\ log' = Append(log, [level |-> "error", what |-> "Error connecting to MySQL database",
                           exc |-> [type |-> "Error", stage |-> pc]])
    /\ UNCHANGED <<fnVars, runVars, dashboard, upserts, connection, resolverVars, otherTables, committed,
                   state_values, raised, rows, finished, call, resolved>>

\* A statement of a loader (cursor.execute, commit, a lookup in a CSV) raises.
stage_raises ==
    /\ pc \in {Stages[i] : i \in 2..Len(Stages)}
    /\ \E type \in {"Error", "IndexError"} : Raise(type)
    /\ UNCHANGED <<fnVars, runVars, dashboard, upserts, connection, resolverVars, otherTables, committed,
                   state_values, raised, log, rows, finished, call, resolved>>

\* A variant of the except clause that logs the error and swallows it.
except_swallow ==
    /\ pc = "except"
    /\ log' = Append(log, [level |-> "error", what |-> "Error during ETL process",
                           exc |-> exc])
    /\ pc' = "finally"
    /\ exc' = NoExc
    /\ UNCHANGED <<fnVars, runVars, dashboard, upserts, connection, resolverVars, otherTables, committed,
                   state_values, raised, rows, finished, call, resolved, started,
                   completed>>

\* except Exception as e: logger.error(...); raise
except_clause ==
    /\ pc = "except"
    /\ log' = Append(log, [level |-> "error", what |-> "Error during ETL process",
                           exc |-> exc])
    /\ pc' = "finally"
    /\ UNCHANGED <<fnVars, runVars, dashboard, upserts, connection, resolverVars, otherTables, committed,
                   state_values, exc, raised, rows, finished, call, resolved, started,
                   completed>>

\* A variant of close that leaves the connection as it is.
close_forgotten(conn) == conn

\* close: an open connection is closed, anything else is left alone.
close(conn) == IF conn = "open" THEN "closed" ELSE conn

\* A variant of the finally clause in which closing the connection commits the
\* writes of the open transaction instead of discarding them.
finally_commits ==
    /\ pc = "finally"
    /\ connection' = close(connection)
    /\ started' = Append(started, "close")
    /\ UNCHANGED tableVars
    /\ IF connection = "open" THEN Commit ELSE UNCHANGED committed
    /\ raised' = exc
    /\ pc' = "done"
    /\ UNCHANGED <<fnVars, runVars, dashboard, upserts, region_map, period_map, auto_increment,
                   state_values, exc, log, completed, rows, finished, call, resolved>>

\* finally: self.close(); then the exception in flight, if any, goes to the caller.
\* Closing the connection discards the writes that were not committed.
finally_clause ==
    /\ pc = "finally"
    /\ connection' = close(connection)
    /\ started' = Append(started, "close")
    /\ IF connection = "open" /\ connection' = "closed"
       THEN /\ regions' = committed.regions
            /\ time_periods' = committed.time_periods
            /\ food_categories' = committed.food_categories
            /\ cpi_categories' = committed.cpi_categories
            /\ food_prices' = committed.food_prices
            /\ cpi_values' = committed.cpi_values
            /\ state_food_sales' = committed.state_food_sales
            /\ regional_income' = committed.regional_income
            /\ state_income' = committed.state_income
       ELSE UNCHANGED tableVars
    /\ raised' = exc
    /\ pc' = "done"
    /\ UNCHANGED <<fnVars, runVars, dashboard, upserts, region_map, period_map, auto_increment, committed,
                   state_values, exc, log, completed, rows, finished, call, resolved>>

----------------------------------------------------------------------------
(* The reference tables. *)

RECURSIVE UpsertAll(_, _)
UpsertAll(table, csv) ==
    IF csv = <<>> THEN table
    ELSE UpsertAll(Put(table, Head(csv).item_code, Head(csv).item_name), Tail(csv))

\* load_food_categories: one upsert per row of the CSV, then commit.
load_food_categories(Csvs) ==
    /\ pc = "load_food_categories"
    /\ \E csv \in Csvs : food_categories' = UpsertAll(food_categories, csv)
    /\ UNCHANGED <<regions, time_periods, cpi_categories, food_prices, cpi_values,
                   state_food_sales, regional_income, state_income>>
    /\ Commit
    /\ Return
    /\ UNCHANGED <<fnVars, runVars, dashboard, upserts, connection, region_map, period_map, auto_increment,
                   state_values, raised, log, rows, finished, call, resolved>>

\* load_cpi_categories: one upsert per row of the CSV, then commit.
load_cpi_categories(Csvs) ==
    /\ pc = "load_cpi_categories"
    /\ \E csv \in Csvs : cpi_categories' = UpsertAll(cpi_categories, csv)
    /\ UNCHANGED <<regions, time_periods, food_categories, food_prices, cpi_values,
                   state_food_sales, regional_income, state_income>>
    /\ Commit
    /\ Return
    /\ UNCHANGED <<fnVars, runVars, dashboard, upserts, connection, region_map, period_map, auto_increment,
                   state_values, raised, log, rows, finished, call, resolved>>

----------------------------------------------------------------------------
(* load_food_prices. *)

\* One pass of the loop over series_df (lines 181-207).
load_food_prices_row(Rows, max) ==
    /\ pc = "load_food_prices"
    /\ Len(rows) < max
    /\ \E series \in Rows :
         LET value == to_numeric(series.value)
             reg == get_or_create_region(region_map, regions, auto_increment.regions,
                                         series.area_name, "region")
             month == food_month(series.period)
             monthly == get_or_create_period(period_map, time_periods,
                                             auto_increment.time_periods,
                                             series.year, Some(month.value))
             yearly == get_or_create_period(monthly.period_map, monthly.time_periods,
                                            monthly.next_id, series.year, None)
             sv == AppendForRegions(state_values, reg.ids, monthly.id, yearly.id,
                                    series.item_code, value)
         IN  IF isna(value)
             THEN /\ rows' = Append(rows, RowRecord(series, "filtered", 0))
                  /\ UNCHANGED <<resolverVars, state_values, flowVars, call, resolved>>
             ELSE /\ region_map' = reg.region_map
                  /\ regions' = reg.regions
                  /\ RecordCall(series.area_name, "region", reg)
                  /\ IF month.raises
                     THEN /\ Raise("ValueError")
                          /\ auto_increment' =
                                 [auto_increment EXCEPT !.regions = reg.next_id]
                          /\ rows' = Append(rows, RowRecord(series, "raised", 0))
                          /\ UNCHANGED <<period_map, time_periods, state_values>>
                     ELSE /\ period_map' = yearly.period_map
                          /\ time_periods' = yearly.time_periods
                          /\ auto_increment' = [regions |-> reg.next_id,
                                                time_periods |-> yearly.next_id]
                          /\ state_values' = sv
                          /\ rows' = Append(rows, RowRecord(series, "appended",
                                                Entries(sv) - Entries(state_values)))
                          /\ UNCHANGED flowVars
    /\ UNCHANGED <<fnVars, runVars, dashboard, upserts, connection, otherTables, committed, raised, log, finished>>

\* The loop over state_values (lines 209-217): one upsert of the mean per key.
FoodUpserts(table, sv) == UpsertMap(table, [key \in DOMAIN sv |-> Mean(sv[key])])

\* The CSV is exhausted: the averaged values are written and committed.
load_food_prices_finish ==
    /\ pc = "load_food_prices"
    /\ food_prices' = FoodUpserts(food_prices, state_values)
    /\ UNCHANGED <<regions, time_periods, food_categories, cpi_categories, cpi_values,
                   state_food_sales, regional_income, state_income>>
    /\ Commit
    /\ Return
    /\ finished' = [stage |-> pc, state_values |-> state_values, rows |-> rows]
    /\ state_values' = EmptyMap
    /\ rows' = <<>>
    /\ upserts' = CountUpserts(upserts, pc, DOMAIN state_values)
    /\ UNCHANGED <<fnVars, runVars, dashboard, connection, region_map, period_map, auto_increment, raised,
                   log, call, resolved>>

----------------------------------------------------------------------------
(* load_cpi_data. *)

\* One pass of the loop over series_df (lines 241-276).
load_cpi_data_row(Rows, max) ==
    /\ pc = "load_cpi_data"
    /\ Len(rows) < max
    /\ \E series \in Rows :
         LET value == to_numeric(series.value)
             base == ParseBasePeriod(series.base_period)
             reg == get_or_create_region(region_map, regions, auto_increment.regions,
                                         series.area_name, "region")
             month == parse_period(series.period)
             monthly == get_or_create_period(period_map, time_periods,
                                             auto_increment.time_periods,
                                             series.year, Some(month.value))
             yearly == get_or_create_period(monthly.period_map, monthly.time_periods,
                                            monthly.next_id, series.year, None)
             entry == [value |-> value, base_period |-> base.base_period,
                       base_value |-> base.base_value]
             sv == AppendForRegions(state_values, reg.ids, monthly.id, yearly.id,
                                    series.item_code, entry)
         IN  IF isna(value)
             THEN /\ rows' = Append(rows, RowRecord(series, "filtered", 0))
                  /\ UNCHANGED <<resolverVars, state_values, flowVars, call, resolved,
                                 log>>
             ELSE IF base.raises # "none"
             THEN /\ Raise(base.raises)
                  /\ rows' = Append(rows, RowRecord(series, "raised", 0))
                  /\ UNCHANGED <<resolverVars, state_values, call, resolved, log>>
             ELSE /\ region_map' = reg.region_map
                  /\ regions' = reg.regions
                  /\ RecordCall(series.area_name, "region", reg)
                  /\ IF month.raises
                     THEN \* except ValueError: logger.warning(...); continue
                          /\ log' = Append(log, [level |-> "warning",
                                                 what |-> "Skipping invalid period format",
                                                 exc |-> [type |-> "ValueError",
                                                          stage |-> pc]])
                          /\ auto_increment' =
                                 [auto_increment EXCEPT !.regions = reg.next_id]
                          /\ rows' = Append(rows, RowRecord(series, "skipped", 0))
                          /\ UNCHANGED <<period_map, time_periods, state_values,
                                         flowVars>>
                     ELSE /\ period_map' = yearly.period_map
                          /\ time_periods' = yearly.time_periods
                          /\ auto_increment' = [regions |-> reg.next_id,
                                                time_periods |-> yearly.next_id]
                          /\ state_values' = sv
                          /\ rows' = Append(rows, RowRecord(series, "appended",
                                                Entries(sv) - Entries(state_values)))
                          /\ UNCHANGED <<flowVars, log>>
    /\ UNCHANGED <<fnVars, runVars, dashboard, upserts, connection, otherTables, committed, raised, finished>>

\* The loop over state_values (lines 278-298): one upsert per key.
CpiUpserts(table, sv) ==
    UpsertMap(table, [key \in DOMAIN sv |-> CpiAggregate(sv[key])])

\* The CSV is exhausted: the aggregated rows are written and committed.
load_cpi_data_finish ==
    /\ pc = "load_cpi_data"
    /\ cpi_values' = CpiUpserts(cpi_values, state_values)
    /\ UNCHANGED <<regions, time_periods, food_categories, cpi_categories, food_prices,
                   state_food_sales, regional_income, state_income>>
    /\ Commit
    /\ Return
    /\ finished' = [stage |-> pc, state_values |-> state_values, rows |-> rows]
    /\ state_values' = EmptyMap
    /\ rows' = <<>>
    /\ upserts' = CountUpserts(upserts, pc, DOMAIN state_values)
    /\ UNCHANGED <<fnVars, runVars, dashboard, connection, region_map, period_map, auto_increment, raised,
                   log, call, resolved>>

----------------------------------------------------------------------------
(* load_state_food_sales, load_regional_income, load_state_income. *)

\* A variant of the conversion that turns unreadable text into nan.
ToFloatCoerce(cell) == [raises |-> FALSE, value |-> to_numeric(cell)]

\* float(str(cell).replace(',', '')): a number, nan for an empty cell, ValueError
\* for other text.
ToFloat(cell) ==
    IF cell.kind = "text" THEN [raises |-> TRUE, value |-> NaN]
    ELSE [raises |-> FALSE, value |-> to_numeric(cell)]

\* The part common to a row of load_state_food_sales and of load_regional_income:
\* the region (the first id the resolver returns) and the yearly period of the row
\* are resolved, then the cells are converted and, unless a conversion raises,
\* written under the key.
YearlyRow(row, region_type, cells, table) ==
    LET reg == get_or_create_region(region_map, regions, auto_increment.regions,
                                    row.region, region_type)
        period == get_or_create_period(period_map, time_periods,
                                       auto_increment.time_periods, row.year, None)
        floats == [i \in 1..Len(cells) |-> ToFloat(cells[i])]
        bad == \E i \in 1..Len(cells) : floats[i].raises
        key == <<reg.ids[1], period.id>>
    IN  [reg |-> reg, period |-> period, bad |-> bad, key |-> key,
         table |-> Upsert(table, key, [i \in 1..Len(cells) |-> floats[i].value])]

\* One pass of the loop of load_state_food_sales (lines 307-320).
load_state_food_sales_row(Rows, max) ==
    /\ pc = "load_state_food_sales"
    /\ Len(rows) < max
    /\ \E row \in Rows :
         LET r == YearlyRow(row, "state", <<row.value>>, state_food_sales)
         IN  /\ region_map' = r.reg.region_map
             /\ regions' = r.reg.regions
             /\ RecordCall(row.region, "state", r.reg)
             /\ period_map' = r.period.period_map
             /\ time_periods' = r.period.time_periods
             /\ auto_increment' = [regions |-> r.reg.next_id,
                                   time_periods |-> r.period.next_id]
             /\ IF r.bad
                THEN /\ Raise("ValueError")
                     /\ rows' = Append(rows, RowRecord(row, "raised", 0))
                     /\ UNCHANGED <<state_food_sales, upserts>>
                ELSE /\ state_food_sales' = r.table
                     /\ rows' = Append(rows, RowRecord(row, "written", 0))
                     /\ upserts' = CountUpserts(upserts, pc, {r.key})
                     /\ UNCHANGED flowVars
    /\ UNCHANGED <<fnVars, runVars, dashboard, connection, food_categories, cpi_categories, food_prices,
                   cpi_values, regional_income, state_income, committed, state_values,
                   raised, log, finished>>

load_state_food_sales_finish ==
    /\ pc = "load_state_food_sales"
    /\ UNCHANGED tableVars
    /\ Commit
    /\ Return
    /\ rows' = <<>>
    /\ UNCHANGED <<fnVars, runVars, dashboard, upserts, connection, region_map, period_map, auto_increment,
                   state_values, raised, log, finished, call, resolved>>

\* One pass of the loop of load_regional_income (lines 329-356).
load_regional_income_row(Rows, max) ==
    /\ pc = "load_regional_income"
    /\ Len(rows) < max
    /\ \E row \in Rows :
         LET r == YearlyRow(row, "region", <<row.value>>, regional_income)
         IN  /\ region_map' = r.reg.region_map
             /\ regions' = r.reg.regions
             /\ RecordCall(row.region, "region", r.reg)
             /\ period_map' = r.period.period_map
             /\ time_periods' = r.period.time_periods
             /\ auto_increment' = [regions |-> r.reg.next_id,
                                   time_periods |-> r.period.next_id]
             /\ IF r.bad
                THEN /\ Raise("ValueError")
                     /\ rows' = Append(rows, RowRecord(row, "raised", 0))
                     /\ UNCHANGED <<regional_income, upserts>>
                ELSE /\ regional_income' = r.table
                     /\ rows' = Append(rows, RowRecord(row, "written", 0))
                     /\ upserts' = CountUpserts(upserts, pc, {r.key})
                     /\ UNCHANGED flowVars
    /\ UNCHANGED <<fnVars, runVars, dashboard, connection, food_categories, cpi_categories, food_prices,
                   cpi_values, state_food_sales, state_income, committed, state_values,
                   raised, log, finished>>

load_regional_income_finish ==
    /\ pc = "load_regional_income"
    /\ UNCHANGED tableVars
    /\ Commit
    /\ Return
    /\ rows' = <<>>
    /\ UNCHANGED <<fnVars, runVars, dashboard, upserts, connection, region_map, period_map, auto_increment,
                   state_values, raised, log, finished, call, resolved>>

\* One state with one year column of load_state_income (lines 367-424): the
\* region is resolved first; a year whose median is missing is passed over; a
\* value that float() cannot read is logged as a warning and the year is passed
\* over; the period is resolved only after the conversions.
load_state_income_row(Rows, max) ==
    /\ pc = "load_state_income"
    /\ Len(rows) < max
    /\ \E row \in Rows :
         LET reg == get_or_create_region(region_map, regions, auto_increment.regions,
                                         row.region, "state")
             median == ToFloat(row.value)
             period == get_or_create_period(period_map, time_periods,
                                            auto_increment.time_periods, row.year, None)
         IN  /\ region_map' = reg.region_map
             /\ regions' = reg.regions
             /\ RecordCall(row.region, "state", reg)
             /\ IF row.value.kind = "missing"
                THEN /\ rows' = Append(rows, RowRecord(row, "filtered", 0))
                     /\ auto_increment' =
                            [auto_increment EXCEPT !.regions = reg.next_id]
                     /\ UNCHANGED <<period_map, time_periods, state_income, log, upserts>>
                ELSE IF median.raises
                THEN /\ rows' = Append(rows, RowRecord(row, "skipped", 0))
                     /\ log' = Append(log, [level |-> "warning",
                                            what |-> "Skipping invalid data",
                                            exc |-> [type |-> "ValueError",
                                                     stage |-> pc]])
                     /\ auto_increment' =
                            [auto_increment EXCEPT !.regions = reg.next_id]
                     /\ UNCHANGED <<period_map, time_periods, state_income, upserts>>
                ELSE /\ rows' = Append(rows, RowRecord(row, "written", 0))
                     /\ period_map' = period.period_map
                     /\ time_periods' = period.time_periods
                     /\ auto_increment' = [regions |-> reg.next_id,
                                           time_periods |-> period.next_id]
                     /\ state_income' = Upsert(state_income, <<reg.ids[1], period.id>>,
                                               <<median.value>>)
                     /\ upserts' = CountUpserts(upserts, pc, {<<reg.ids[1], period.id>>})
                     /\ UNCHANGED log
    /\ UNCHANGED <<fnVars, runVars, dashboard, connection, food_categories, cpi_categories, food_prices,
                   cpi_values, state_food_sales, regional_income, committed,
                   state_values, flowVars, raised, finished>>

load_state_income_finish ==
    /\ pc = "load_state_income"
    /\ UNCHANGED tableVars
    /\ Commit
    /\ Return
    /\ rows' = <<>>
    /\ UNCHANGED <<fnVars, runVars, dashboard, upserts, connection, region_map, period_map, auto_increment,
                   state_values, raised, log, finished, call, resolved>>

----------------------------------------------------------------------------
(* Runs of execute_etl. *)

M07 == <<"M", "0", "7">>
M01 == <<"M", "0", "1">>
S02 == <<"S", "0", "2">>
A01 == <<"A", "0", "1">>
Plain07 == <<"0", "7">>
M13 == <<"M", "1", "3">>
M00 == <<"M", "0", "0">>
S03 == <<"S", "0", "3">>

Base1982 == <<"1982", "-", "84", "=", "100">>
Base1967 == <<"1967", "=", "100">>

\* A row of food_prices_series.csv joined with its metadata and area.
FoodRow(area_name, value, period) ==
    [area_name |-> area_name, value |-> value, period |-> period, year |-> 2020,
     item_code |-> "FOOD1"]

\* A row of cpi_series.csv joined with its metadata and area.
CpiRow(area_name, value, period, base_period) ==
    [area_name |-> area_name, value |-> value, period |-> period, year |-> 2020,
     item_code |-> "CPI1", base_period |-> base_period]

\* A row of one of the yearly CSVs.
YearRow(region, value) == [region |-> region, value |-> value, year |-> 2020]

CategoryCsv == <<[item_code |-> "FOOD1", item_name |-> "Bread"]>>

\* The CSVs of the runs that exercise every stage: few kinds of rows per file.
FewFoodRows == {FoodRow(Chicago, Number(10), M07), FoodRow(Peoria, Number(20), S02)}
FewCpiRows == {CpiRow(Peoria, Number(10), M07, Base1982),
               CpiRow(Peoria, Number(10), A01, Base1982)}
FewSalesRows == {YearRow(Illinois, Number(10))}
FewRegionalRows == {YearRow(Midwest, Number(10))}
FewStateRows == {YearRow(Illinois, Number(10))}

\* The food-price CSVs of the runs that exercise the series loaders.
FoodRows ==
    {FoodRow(Chicago, Number(10), M07), FoodRow(Chicago, Missing, M07),
     FoodRow(Peoria, Number(10), M07), FoodRow(Peoria, Number(20), M07),
     FoodRow(Peoria, Number(30), M07), FoodRow(Peoria, Text, M07),
     FoodRow(Peoria, Number(20), M01), FoodRow(Peoria, Number(20), S02),
     FoodRow(Peoria, Number(20), Plain07), FoodRow(Midwest, Number(20), A01)}

\* The CPI CSVs of the runs that exercise the series loaders.
CpiRows ==
    {CpiRow(Peoria, Number(10), M07, Base1982), CpiRow(Peoria, Number(20), M07, Base1967),
     CpiRow(Peoria, Number(30), M07, Base1982), CpiRow(Chicago, Number(30), M01, Base1982),
     CpiRow(Peoria, Missing, M07, Base1982), CpiRow(Peoria, Text, A01, Base1967),
     CpiRow(Peoria, Number(20), S02, Base1967), CpiRow(Peoria, Number(20), A01, Base1982),
     CpiRow(Midwest, Number(20), Plain07, Base1967),
     CpiRow(Peoria, Number(20), M07, <<"1982">>)}

\* The CPI CSVs of the runs that exercise the choice of the base period.
BaseRows ==
    {CpiRow(Peoria, Number(10), M07, Base1982), CpiRow(Peoria, Number(20), M07, Base1967),
     CpiRow(Chicago, Number(30), M07, Base1982), CpiRow(Peoria, Number(20), M01, Base1967)}

\* Every stage with a few kinds of rows, failures of the database included.
Next ==
    \/ execute_etl
    \/ connect_ok
    \/ connect_fails
    \/ load_food_categories({<<>>, CategoryCsv})
    \/ load_cpi_categories({CategoryCsv})
    \/ load_food_prices_row(FewFoodRows, MaxRows)
    \/ load_food_prices_finish
    \/ load_cpi_data_row(FewCpiRows, MaxRows)
    \/ load_cpi_data_finish
    \/ load_state_food_sales_row(FewSalesRows, MaxRows)
    \/ load_state_food_sales_finish
    \/ load_regional_income_row(FewRegionalRows, MaxRows)
    \/ load_regional_income_finish
    \/ load_state_income_row(FewStateRows, MaxRows)
    \/ load_state_income_finish
    \/ stage_raises
    \/ except_clause
    \/ finally_clause

Spec == Init /\ [][Next]_vars

\* Runs in which one of the two series CSVs is any sequence of FoodRows or of
\* CpiRows, and every other CSV is empty.
NextLoad ==
    \/ execute_etl
    \/ connect_ok
    \/ load_food_categories({CategoryCsv})
    \/ load_cpi_categories({CategoryCsv})
    \/ load_food_prices_row(FoodRows, MaxSeriesRows)
    \/ load_food_prices_finish
    \/ finished.rows = <<>> /\ load_cpi_data_row(CpiRows, MaxSeriesRows)
    \/ load_cpi_data_finish
    \/ load_state_food_sales_finish
    \/ load_regional_income_finish
    \/ load_state_income_finish
    \/ except_clause
    \/ finally_clause

SpecLoad == Init /\ [][NextLoad]_vars

\* Runs whose CPI CSV is any sequence of BaseRows and whose other CSVs are empty.
NextCpi ==
    \/ execute_etl
    \/ connect_ok
    \/ load_food_categories({CategoryCsv})
    \/ load_cpi_categories({CategoryCsv})
    \/ load_food_prices_finish
    \/ load_cpi_data_row(BaseRows, MaxCpiRows)
    \/ load_cpi_data_finish
    \/ load_state_food_sales_finish
    \/ load_regional_income_finish
    \/ load_state_income_finish
    \/ finally_clause

SpecCpi == Init /\ [][NextCpi]_vars

\* The CSVs of the runs that exercise the handling of rows in every loader: rows
\* that load, rows with the same key, rows without a value and rows that do not
\* convert.
RowFoodRows == {FoodRow(Peoria, Number(10), M07), FoodRow(Peoria, Number(20), A01),
                FoodRow(Peoria, Number(30), M13), FoodRow(Peoria, Number(30), M00),
                FoodRow(Springfield, Number(20), M07)}
RowCpiRows == {CpiRow(Peoria, Number(10), M07, Base1982),
               CpiRow(Peoria, Number(20), A01, Base1982),
               CpiRow(Peoria, Number(20), M07, <<"1982">>),
               CpiRow(Peoria, Number(30), S02, Base1982),
               CpiRow(Peoria, Number(30), S03, Base1982)}
RowSalesRows == {YearRow(Illinois, Number(10)), YearRow(Illinois, Number(20)),
                 YearRow(Illinois, Text), YearRow(Illinois, Missing)}
RowRegionalRows == {YearRow(Midwest, Number(10)), YearRow(Midwest, Number(20)),
                    YearRow(Midwest, Text)}
RowStateRows == {YearRow(Illinois, Number(10)), YearRow(Illinois, Number(20)),
                 YearRow(Illinois, Text), YearRow(Illinois, Missing)}

\* No stage before the running one has read a row that it wrote, skipped or
\* aggregated.
FirstFedStage ==
    /\ \A sk \in DOMAIN upserts : sk[1] = pc
    /\ \A i \in 1..Len(log) : log[i].level = "warning" => log[i].exc.stage = pc

\* Runs in which the CSVs of one stage are any sequence of the rows above and
\* those of the stages before it hold no row that loads.
NextRows ==
    \/ execute_etl
    \/ connect_ok
    \/ load_food_categories({CategoryCsv})
    \/ load_cpi_categories({CategoryCsv})
    \/ load_food_prices_row(RowFoodRows, MaxRows)
    \/ load_food_prices_finish
    \/ FirstFedStage /\ load_cpi_data_row(RowCpiRows, MaxRows)
    \/ load_cpi_data_finish
    \/ FirstFedStage /\ load_state_food_sales_row(RowSalesRows, MaxRows)
    \/ load_state_food_sales_finish
    \/ FirstFedStage /\ load_regional_income_row(RowRegionalRows, MaxRows)
    \/ load_regional_income_finish
    \/ FirstFedStage /\ load_state_income_row(RowStateRows, MaxRows)
    \/ load_state_income_finish
    \/ except_clause
    \/ finally_clause

SpecRows == Init /\ [][NextRows]_vars

\* The labels of the direct calls of the resolvers.
Unknown == <<"Nowhere", ",", " ", "XX">>

ResolverLabels == {Chicago, Peoria, Midwest, Illinois, UrbanAlaska, Springfield, Unknown}

\* connect, called on its own.
connect_call ==
    /\ pc = "idle"
    /\ connection = "none"
    /\ connection' = "open"
    /\ UNCHANGED <<fnVars, runVars, dashboard, pc, resolverVars, otherTables, committed, state_values,
                   exc, raised, log, histVars>>

\* _get_or_create_region, called on its own with any label and declared type.
region_call(Names) ==
    /\ pc = "idle"
    /\ connection = "open"
    /\ \E name \in Names, type \in {"region", "state"} :
         LET reg == get_or_create_region(region_map, regions, auto_increment.regions,
                                         name, type)
         IN  /\ region_map' = reg.region_map
             /\ regions' = reg.regions
             /\ auto_increment' = [auto_increment EXCEPT !.regions = reg.next_id]
             /\ RecordCall(name, type, reg)
    /\ UNCHANGED <<fnVars, runVars, dashboard, upserts, pc, connection, period_map, time_periods, otherTables,
                   committed, state_values, exc, raised, log, started, completed,
                   rows, finished>>

\* Any sequence of calls of the region resolver on one DatabaseETL.
NextResolve == connect_call \/ region_call(ResolverLabels)

SpecResolve == Init /\ [][NextResolve]_vars

\* One call of the region resolver on a new DatabaseETL, with any label.
NextLabel == connect_call \/ (~call.made /\ region_call(Labels))

SpecLabel == Init /\ [][NextLabel]_vars

\* The two hard-coded labels and the other labels of their states.
Anchorage == <<"Anchorage", ",", " ", "AK">>
Honolulu == <<"Honolulu", ",", " ", "HI">>

UrbanLabels ==
    {UrbanAlaska, UrbanHawaii, <<"Alaska">>, <<"Hawaii">>, Anchorage, Honolulu}

\* Calls of the region resolver on one DatabaseETL with the labels of Alaska and
\* Hawaii, in any order.
NextUrban == connect_call \/ region_call(UrbanLabels)

SpecUrban == Init /\ [][NextUrban]_vars

\* The years and months of the direct calls of the period resolver: no month, a
\* month, and the month 0.
PeriodYears == {2020, 2021}
PeriodMonths == {None, Some(0), Some(7)}

\* _get_or_create_period, called on its own with any year and month.
period_call(Years, Months) ==
    /\ pc = "idle"
    /\ connection = "open"
    /\ \E year \in Years, month \in Months :
         LET period == get_or_create_period(period_map, time_periods,
                                            auto_increment.time_periods, year, month)
             period_key == <<year, month>>
         IN  /\ period_map' = period.period_map
             /\ time_periods' = period.time_periods
             /\ auto_increment' = [auto_increment EXCEPT !.time_periods = period.next_id]
             /\ call' = [name |-> period_key, type |-> "none", made |-> TRUE,
                         repeat |-> period_key \in DOMAIN resolved,
                         ids |-> <<period.id>>,
                         inserts |-> IF period_key \in DOMAIN period_map THEN 0 ELSE 1,
                         created |-> Cardinality(period.time_periods)
                                         - Cardinality(time_periods)]
             /\ resolved' = IF period_key \in DOMAIN resolved THEN resolved
                            ELSE Put(resolved, period_key, <<period.id>>)
    /\ UNCHANGED <<fnVars, runVars, dashboard, pc, connection, region_map, regions, otherTables, committed,
                   state_values, exc, raised, log, started, completed, rows, finished,
                   upserts>>

\* Any sequence of calls of the period resolver on one DatabaseETL.
NextPeriod == connect_call \/ period_call(PeriodYears, PeriodMonths)

SpecPeriod == Init /\ [][NextPeriod]_vars

\* The labels of the resolver calls of two DatabaseETL objects on one database.
SharedLabels == {Peoria, Midwest, Illinois}

\* Two DatabaseETL objects, each in its own process with its own caches,
\* connected to the same database: the processor passes from the one to the
\* other between two statements.  Every INSERT is one statement of the
\* database, which checks the unique key against every row of the table.
switch_instance ==
    /\ pc = "idle"
    /\ other' = [connection |-> connection, region_map |-> region_map,
                 period_map |-> period_map]
    /\ connection' = other.connection
    /\ region_map' = other.region_map
    /\ period_map' = other.period_map
    /\ UNCHANGED <<fnVars, dashboard, data, previous, pc, tableVars, committed,
                   auto_increment, state_values, exc, raised, log, histVars>>

\* Resolver calls of the two objects, interleaved in any order.
NextShared ==
    \/ connect_call
    \/ region_call(SharedLabels)
    \/ period_call({2020}, {None, Some(7)})
    \/ switch_instance

SpecShared == Init /\ [][NextShared]_vars

----------------------------------------------------------------------------
(* The dashboard script app_streamlit.py and execute_query. *)

\* The pages of the script with the queries each runs, in the order of the
\* script.  On the Custom Query page the query is the text the user entered.
Pages ==
    ("Home" :> <<"stats_query", "load_state_data", "get_state_food_sales_timeseries">>)
    @@ ("Income Analysis" :>
            <<"load_regions", "compare_state_incomes", "analyze_income_inequality">>)
    @@ ("Food Prices" :> <<"load_food_items", "analyze_food_price_trends">>)
    @@ ("CPI Analysis" :> <<"load_regions", "analyze_cpi_by_category">>)
    @@ ("Analysis Insights" :>
            <<"analyze_income_sales_correlation", "analyze_regional_price_disparities",
              "analyze_seasonal_patterns", "analyze_urban_rural_prices">>)
    @@ ("Custom Query" :> <<"query">>)

\* The queries that run only when the select box filled by another query has a
\* selection (if state1 and state2, if food_item, if region and year).
NeedsSelection ==
    ("compare_state_incomes" :> "load_regions")
    @@ ("analyze_food_price_trends" :> "load_food_items")
    @@ ("analyze_cpi_by_category" :> "load_regions")

\* The queries that go through execute_query of economic_analysis.py; the others
\* call pd.read_sql in the script.
ThroughExecuteQuery ==
    {"get_state_food_sales_timeseries", "compare_state_incomes",
     "analyze_income_inequality", "analyze_food_price_trends",
     "analyze_cpi_by_category", "analyze_income_sales_correlation",
     "analyze_regional_price_disparities", "analyze_seasonal_patterns",
     "analyze_urban_rural_prices"}

\* A variant of the script with a try block around the queries of every page.
HasTryEverywhere(page) == TRUE

\* The queries of the page run inside a try block with except Exception.
HasTry(page) == page = "Custom Query"

\* The user selects a page and the script runs from the top.  On the Custom Query
\* page the query runs only if the button was pressed and the text is not empty.
select_page ==
    /\ dashboard.pc = "select"
    /\ \E page \in DOMAIN Pages, run \in BOOLEAN :
         /\ page # "Custom Query" => run
         /\ dashboard' = [dashboard EXCEPT !.page = page, !.pc = "running",
                                           !.todo = IF run THEN Pages[page] ELSE <<>>]
    /\ UNCHANGED <<fnVars, runVars, etlVars>>

\* The next query of the page returns a frame, empty or not, and the script
\* displays it; a select box filled from an empty frame has no selection.
query_returns ==
    /\ dashboard.pc = "running"
    /\ dashboard.todo # <<>>
    /\ \E result \in {"rows", "empty"} :
         LET query == Head(dashboard.todo)
             Runs(q) == ~(result = "empty" /\ q \in DOMAIN NeedsSelection
                                          /\ NeedsSelection[q] = query)
         IN  dashboard' =
                 [dashboard EXCEPT
                     !.shown = Append(@, [kind |-> "result", query |-> query,
                                          result |-> result]),
                     !.todo = SelectSeq(Tail(@), Runs)]
    /\ UNCHANGED <<fnVars, runVars, etlVars>>

\* The next query of the page raises.  execute_query logs the error and re-raises
\* it.  Inside the try block of the page the exception is caught and shown with
\* st.error; elsewhere it leaves the script.
query_raises ==
    /\ dashboard.pc = "running"
    /\ dashboard.todo # <<>>
    /\ LET query == Head(dashboard.todo)
           e == [type |-> "Exception", stage |-> query]
       IN  /\ log' = IF query \in ThroughExecuteQuery
                     THEN Append(log, [level |-> "error",
                                       what |-> "Query execution error", exc |-> e])
                     ELSE log
           /\ IF HasTry(dashboard.page)
              THEN dashboard' =
                       [dashboard EXCEPT
                           !.failed = query, !.todo = <<>>,
                           !.shown = Append(@, [kind |-> "error", query |-> query,
                                                result |-> "none"])]
              ELSE dashboard' =
                       [dashboard EXCEPT !.failed = query, !.todo = <<>>,
                                         !.pc = "failed", !.escaped = e]
    /\ UNCHANGED <<fnVars, runVars, pc, connection, resolverVars, tableVars, committed,
                   state_values, exc, raised, histVars>>

\* The page is through: the footer of the sidebar is displayed and the script ends.
footer ==
    /\ dashboard.pc = "running"
    /\ dashboard.todo = <<>>
    /\ dashboard' = [dashboard EXCEPT
                         !.pc = "done",
                         !.shown = Append(@, [kind |-> "footer", query |-> "none",
                                              result |-> "none"])]
    /\ UNCHANGED <<fnVars, runVars, etlVars>>

\* One run of the script for any page, with any outcome of its queries.
NextDashboard == select_page \/ query_returns \/ query_raises \/ footer

SpecDashboard == Init /\ [][NextDashboard]_vars

----------------------------------------------------------------------------
(* Runs of the script one after the other, over the same files. *)

\* Runs of the script after the first.
MaxReruns == 1

\* The files under data/, fixed for all runs: loader -> rows.
CsvFiles ==
    [load_food_prices :
         {<<>>, <<FoodRow(Chicago, Number(10), M07), FoodRow(Peoria, Number(20), M07)>>},
     load_cpi_data :
         {<<>>, <<CpiRow(Peoria, Number(10), M07, Base1982),
                  CpiRow(Peoria, Number(20), S02, Base1982)>>},
     load_state_food_sales :
         {<<YearRow(Illinois, Number(10))>>,
          <<YearRow(Illinois, Number(10)), YearRow(Illinois, Number(20))>>},
     load_regional_income :
         {<<YearRow(Midwest, Number(10))>>,
          <<YearRow(Midwest, Number(10)), YearRow(Midwest, Text)>>},
     load_state_income : {<<>>, <<YearRow(Illinois, Number(10))>>}]

InitFiles ==
    /\ fn = "none" /\ arg = <<>> /\ ret = <<>>
    /\ EtlInit
    /\ DashboardInit
    /\ data \in CsvFiles
    /\ previous = NoRun
    /\ other = NoOther

\* The next row of the running loader's file, if there is one.
NextRow ==
    IF pc \in DOMAIN data /\ Len(rows) < Len(data[pc])
    THEN {data[pc][Len(rows) + 1]}
    ELSE {}

\* for _, row in df.iterrows() is over: every row of the file was read.
AllRead == pc \in DOMAIN data /\ Len(rows) = Len(data[pc])

\* execute_etl has ended: what the history keeps of the run.
EndOfRun ==
    /\ previous' = [runs |-> previous.runs + 1, database |-> committed,
                    region_map |-> region_map, period_map |-> period_map,
                    raised |-> raised]
    /\ exc' = NoExc /\ raised' = NoExc
    /\ completed' = <<>> /\ rows' = <<>>
    /\ finished' = [stage |-> "none", state_values |-> EmptyMap, rows |-> <<>>]
    /\ call' = [name |-> <<>>, type |-> "none", made |-> FALSE, repeat |-> FALSE, ids |-> <<>>,
                inserts |-> 0, created |-> 0]
    /\ resolved' = EmptyMap
    /\ upserts' = EmptyMap
    /\ state_values' = EmptyMap

\* The script is run again (the __main__ block): a new DatabaseETL with empty
\* caches, in a new process, against the database as the last run left it.
main_again ==
    /\ pc = "done"
    /\ previous.runs < MaxReruns
    /\ EndOfRun
    /\ region_map' = EmptyMap
    /\ period_map' = EmptyMap
    /\ connection' = "none"
    /\ log' = <<>>
    /\ pc' = "idle"
    /\ started' = <<>>
    /\ UNCHANGED <<fnVars, dashboard, data, other, tableVars, committed, auto_increment>>

\* execute_etl is called again on the same DatabaseETL after it has returned or
\* raised: the caches of the object are those the earlier run left.
execute_etl_again ==
    /\ pc = "done"
    /\ previous.runs < MaxReruns
    /\ EndOfRun
    /\ pc' = "connect"
    /\ started' = <<"connect">>
    /\ UNCHANGED <<fnVars, dashboard, data, other, connection, region_map, period_map,
                   tableVars, committed, auto_increment, log>>

\* Runs over fixed files, of the script or of execute_etl on the same object,
\* without failures of the database.
NextFiles ==
    \/ execute_etl
    \/ connect_ok
    \/ load_food_categories({CategoryCsv})
    \/ load_cpi_categories({CategoryCsv})
    \/ load_food_prices_row(NextRow, Len(data.load_food_prices))
    \/ (AllRead /\ load_food_prices_finish)
    \/ load_cpi_data_row(NextRow, Len(data.load_cpi_data))
    \/ (AllRead /\ load_cpi_data_finish)
    \/ load_state_food_sales_row(NextRow, Len(data.load_state_food_sales))
    \/ (AllRead /\ load_state_food_sales_finish)
    \/ load_regional_income_row(NextRow, Len(data.load_regional_income))
    \/ (AllRead /\ load_regional_income_finish)
    \/ load_state_income_row(NextRow, Len(data.load_state_income))
    \/ (AllRead /\ load_state_income_finish)
    \/ except_clause
    \/ finally_clause
    \/ main_again
    \/ execute_etl_again

SpecFiles == InitFiles /\ [][NextFiles]_vars

----------------------------------------------------------------------------

(* Claims about the Name Normalizer. *)

\* The text after the first comma of a label that has one.
AfterFirstComma(s) ==
    LET c == CHOOSE i \in 1..Len(s) : s[i] = "," /\ \A j \in 1..(i - 1) : s[j] # ","
    IN  SubSeq(s, c + 1, Len(s))

\* t is k state codes of the table separated by dashes, after a blanks and before
\* blanks only.
IsCodeList(t, a, k) ==
    /\ a + 2 * k - 1 <= Len(t)
    /\ \A i \in 1..Len(t) : (i <= a \/ i > a + 2 * k - 1) => t[i] = " "
    /\ \A j \in 1..k : t[a + 2 * j - 1] \in DOMAIN state_map
    /\ \A j \in 1..(k - 1) : t[a + 2 * j] = "-"

\* C1: for a label whose text after the first comma is k >= 1 dash-separated
\* two-letter state codes, the normalizer returns exactly k names, the i-th being
\* the full state name of the i-th code.
C1_NormalizerExpandsCodesInOrder ==
    (fn = "normalizer" /\ Contains(arg, ",")) =>
        \A k \in 1..Len(arg) : \A a \in 0..Len(arg) :
            IsCodeList(AfterFirstComma(arg), a, k) =>
                /\ Len(ret) = k
                /\ \A j \in 1..k : ret[j] = state_map[AfterFirstComma(arg)[a + 2 * j - 1]]

\* The normalizer has expanded the three codes of the Chicago label.
C1_Witness ==
    /\ fn = "normalizer"
    /\ arg = Chicago
    /\ ret = << <<"Illinois">>, <<"Indiana">>, <<"Wisconsin">> >>

----------------------------------------------------------------------------
(* Claims about the Region Resolver. *)

\* C2: a call of _get_or_create_region with a name that was resolved before
\* returns the ids of the first call, issues no INSERT and creates no region row.
C2_SameNameSameIds ==
    (call.made /\ call.repeat) =>
        /\ call.ids = resolved[call.name]
        /\ call.inserts = 0
        /\ call.created = 0

\* The Chicago label has been resolved a second time, to its three ids.
C2_Witness ==
    /\ call.made /\ call.repeat
    /\ call.name = Chicago
    /\ Len(call.ids) = 3
    /\ Cardinality(regions) > 3

----------------------------------------------------------------------------
(* Claims about the series loaders. *)

SeriesLoaders == {"load_food_prices", "load_cpi_data"}

\* The names the normalizer gives a label, as a set.
NamesOf(area_name) ==
    {NormalizeLabel(area_name)[i] : i \in 1..Len(NormalizeLabel(area_name))}

\* The keys of food_prices that a food-price row with a month code maps to, by
\* the caches as they are after the load.
FoodRowKeys(series) ==
    {<<region_map[n], period_map[<<series.year, m>>], series.item_code>> :
        n \in NamesOf(series.area_name),
        m \in {Some(food_month(series.period).value), None}}

\* The accepted rows with the Chicago label among the rows of the finished load.
ChicagoRows ==
    {i \in 1..Len(finished.rows) :
        /\ finished.rows[i].row.area_name = Chicago
        /\ finished.rows[i].outcome = "appended"}

\* C3 as stated: the Chicago row produces exactly three stored Observations, each
\* with the row's price.
C3_ThreeObservations ==
    finished.stage = "load_food_prices" =>
        \A i \in ChicagoRows :
            LET series == finished.rows[i].row
            IN  /\ Cardinality(FoodRowKeys(series) \cap Keys(food_prices)) = 3
                /\ \A key \in FoodRowKeys(series) \cap Keys(food_prices) :
                       Stored(food_prices, key) = Some(<<series.value.n, 1>>)

\* C3 as amended: the Chicago row produces exactly six stored Observations, for
\* each of its three states one under the monthly and one under the yearly period,
\* and each holds the row's price unchanged when no other row maps to its key.
C3_SixObservations ==
    finished.stage = "load_food_prices" =>
        \A i \in ChicagoRows :
            LET series == finished.rows[i].row
                keys == FoodRowKeys(series) \cap Keys(food_prices)
            IN  /\ Cardinality(keys) = 6
                /\ Cardinality({key[1] : key \in keys}) = 3
                /\ Cardinality({key[2] : key \in keys}) = 2
                /\ \A key \in keys :
                       Len(finished.state_values[key]) = 1 =>
                           Stored(food_prices, key) = Some(<<series.value.n, 1>>)

\* The Chicago row was loaded together with a row of another city of Illinois.
C3_Witness ==
    /\ finished.stage = "load_food_prices"
    /\ ChicagoRows # {}
    /\ \E i \in 1..Len(finished.rows) :
           /\ finished.rows[i].row.area_name = Peoria
           /\ finished.rows[i].outcome = "appended"
    /\ Cardinality(food_prices) >= 6

\* stored is the arithmetic mean of the numbers `values`: sum / count.
IsMeanOf(stored, values) ==
    /\ stored # NaN
    /\ stored[1][2] > 0
    /\ stored[1][1] * Len(values) = SumSeq(values) * stored[1][2]

\* C4: for every key of the aggregation map of load_food_prices and of
\* load_cpi_data, the value written to the table is the arithmetic mean of the
\* values collected for the key.
C4_StoredValueIsMean ==
    /\ finished.stage = "load_food_prices" =>
           \A key \in DOMAIN finished.state_values :
               IsMeanOf(Stored(food_prices, key),
                        [i \in 1..Len(finished.state_values[key]) |->
                            finished.state_values[key][i][1]])
    /\ finished.stage = "load_cpi_data" =>
           \A key \in DOMAIN finished.state_values :
               IsMeanOf(Stored(cpi_values, key).value,
                        [i \in 1..Len(finished.state_values[key]) |->
                            finished.state_values[key][i].value[1]])

\* The values 10, 20, 30 were collected for one key and 20 was stored.
C4_Witness ==
    /\ finished.stage = "load_food_prices"
    /\ \E key \in DOMAIN finished.state_values :
           /\ finished.state_values[key] = <<Some(10), Some(20), Some(30)>>
           /\ Stored(food_prices, key) = Some(<<20, 1>>)

\* The (base_period, base_value) pair of the i-th tuple collected for a key.
PairAt(value_tuples, i) == <<value_tuples[i].base_period, value_tuples[i].base_value>>

PairCount(value_tuples, p) ==
    Cardinality({i \in 1..Len(value_tuples) : PairAt(value_tuples, i) = p})

\* C5: the stored (base_period, base_value) pair of a key occurred in a collected
\* row, no pair occurs more often, and every pair collected before its first
\* occurrence occurs less often.
C5_MostCommonBasePeriod ==
    finished.stage = "load_cpi_data" =>
        \A key \in DOMAIN finished.state_values :
            LET value_tuples == finished.state_values[key]
                stored == <<Stored(cpi_values, key).base_period,
                           Stored(cpi_values, key).base_value>>
            IN  \E i \in 1..Len(value_tuples) :
                    /\ PairAt(value_tuples, i) = stored
                    /\ \A j \in 1..Len(value_tuples) :
                           PairCount(value_tuples, PairAt(value_tuples, j))
                               <= PairCount(value_tuples, stored)
                    /\ \A j \in 1..(i - 1) :
                           /\ PairAt(value_tuples, j) # stored
                           /\ PairCount(value_tuples, PairAt(value_tuples, j))
                                  < PairCount(value_tuples, stored)

\* "1982-84=100" was collected three times and "1967=100" once, the latter first,
\* and base period "1982-84" was stored.
C5_Witness ==
    /\ finished.stage = "load_cpi_data"
    /\ \E key \in DOMAIN finished.state_values :
           LET value_tuples == finished.state_values[key]
           IN  /\ Len(value_tuples) = 4
               /\ PairAt(value_tuples, 1) = <<<<"1967">>, 100>>
               /\ PairCount(value_tuples, <<<<"1982", "-", "84">>, 100>>) = 3
               /\ Stored(cpi_values, key).base_period = <<"1982", "-", "84">>
               /\ Stored(cpi_values, key).base_value = 100

RECURSIVE SumAppended(_)
SumAppended(rs) == IF rs = <<>> THEN 0 ELSE Head(rs).appended + SumAppended(Tail(rs))

\* C6: in the series loaders a row with a missing or unparseable value is
\* filtered and appends nothing; no list of the aggregation map holds a NaN, and
\* the lists hold exactly what the other rows appended.
C6_MissingValuesNeverAggregated ==
    /\ \A i \in 1..Len(rows) :
           (rows[i].stage \in SeriesLoaders /\ rows[i].row.value.kind # "number") =>
               rows[i].outcome = "filtered" /\ rows[i].appended = 0
    /\ (rows # <<>> /\ rows[1].stage = "load_food_prices") =>
           \A key \in DOMAIN state_values : \A i \in 1..Len(state_values[key]) :
               state_values[key][i] # NaN
    /\ (rows # <<>> /\ rows[1].stage = "load_cpi_data") =>
           \A key \in DOMAIN state_values : \A i \in 1..Len(state_values[key]) :
               state_values[key][i].value # NaN
    /\ (rows # <<>> /\ rows[1].stage \in SeriesLoaders) =>
           Entries(state_values) = SumAppended(rows)

\* A row without a value was read between two rows with one.
C6_Witness ==
    /\ Len(rows) = 3
    /\ rows[1].stage = "load_cpi_data"
    /\ rows[1].outcome = "appended"
    /\ rows[2].outcome = "filtered" /\ rows[2].row.value.kind = "text"
    /\ rows[3].outcome = "appended"
    /\ Entries(state_values) = 4

\* A month code "Mnn" or a semester code "Snn".
Recognized(period_str) ==
    /\ Len(period_str) >= 2
    /\ period_str[1] \in {"M", "S"}
    /\ \A i \in 2..Len(period_str) : period_str[i] \in Digits

\* The rows of the running series loader that have a value and a period string
\* of unrecognized format (and, for CPI, a base period annotation that parses).
UnrecognizedRows ==
    {i \in 1..Len(rows) :
        /\ rows[i].stage \in SeriesLoaders
        /\ rows[i].row.value.kind = "number"
        /\ ~Recognized(rows[i].row.period)
        /\ rows[i].stage = "load_cpi_data" =>
               ParseBasePeriod(rows[i].row.base_period).raises = "none"}

NoNumberWithoutM(period_str) ==
    \/ \A i \in 1..Len(period_str) : period_str[i] = "M"
    \/ \E i \in 1..Len(period_str) : period_str[i] \notin Digits \cup {"M"}

----------------------------------------------------------------------------
(* Claims about execute_etl. *)

\* The stages started, the final close left out.
Loads == SelectSeq(started, LAMBDA x : x # "close")

\* An error record of the except clause of execute_etl for exception e.
LoggedByExecuteEtl(e) ==
    \E j \in 1..Len(log) :
        /\ log[j].level = "error"
        /\ log[j].what = "Error during ETL process"
        /\ log[j].exc = e

\* C7: the stages start in the fixed order, each one only after the stage before
\* it has returned normally, none twice and none passed over; close comes last,
\* once; a run without an error has started and completed every stage.
C7_StagesInOrder ==
    /\ Len(Loads) <= Len(Stages)
    /\ Loads = SubSeq(Stages, 1, Len(Loads))
    /\ Len(completed) <= Len(Loads)
    /\ completed = SubSeq(Stages, 1, Len(completed))
    /\ Len(Loads) <= Len(completed) + 1
    /\ \A i \in 1..Len(started) : started[i] = "close" => i = Len(started)
    /\ pc = "done" => started # <<>> /\ started[Len(started)] = "close"
    /\ (pc = "done" /\ raised = NoExc) =>
           started = Stages \o <<"close">> /\ completed = Stages

\* A run has gone through every stage and closed the connection.
C7_Witness ==
    /\ pc = "done"
    /\ raised = NoExc
    /\ started = Stages \o <<"close">>
    /\ state_income # {}

\* C8: when execute_etl has ended, with or without an error, the cleanup step
\* has run and the connection is not open.
C8_ConnectionClosedAtEnd ==
    pc = "done" =>
        /\ connection # "open"
        /\ started[Len(started)] = "close"
        /\ "connect" \in {completed[i] : i \in 1..Len(completed)} =>
               connection = "closed"

\* A run that failed in load_cpi_data has ended with the connection closed.
C8_Witness ==
    /\ pc = "done"
    /\ raised = [type |-> "Error", stage |-> "load_cpi_data"]
    /\ connection = "closed"

\* C9: when a stage raises, no later stage is started, the error is logged by
\* execute_etl and the same error reaches the caller; a run that ended without
\* completing every stage has let the error of the next stage out.
C9_ErrorLoggedAndReraised ==
    /\ exc # NoExc =>
           /\ Loads # <<>> /\ Loads[Len(Loads)] = exc.stage
           /\ \A i \in 1..Len(completed) : completed[i] # exc.stage
           /\ pc \in {"finally", "done"} => LoggedByExecuteEtl(exc)
           /\ pc = "done" => raised = exc
    /\ (pc = "done" /\ Len(completed) < Len(Stages)) =>
           /\ raised # NoExc
           /\ raised.stage = Stages[Len(completed) + 1]
           /\ LoggedByExecuteEtl(raised)
    /\ (pc = "done" /\ Len(completed) = Len(Stages)) => raised = NoExc

\* load_food_prices raised the ValueError of a period string; it was logged and
\* reached the caller.
C9_Witness ==
    /\ pc = "done"
    /\ raised = [type |-> "ValueError", stage |-> "load_food_prices"]
    /\ LoggedByExecuteEtl(raised)
    /\ Len(started) = 5

----------------------------------------------------------------------------
(* Claims about the handling of errors in the rows of the loaders. *)

\* The row of record r cannot be processed: it has a value, and its period string
\* or its base period annotation does not parse (series loaders), or its value is
\* text that is no number (yearly loaders).
RowError(r) ==
    CASE r.stage = "load_food_prices" ->
             r.row.value.kind = "number" /\ NoNumberWithoutM(r.row.period)
      [] r.stage = "load_cpi_data" ->
             /\ r.row.value.kind = "number"
             /\ ~Contains(r.row.base_period, "=") \/ ~Recognized(r.row.period)
      [] OTHER -> r.row.value.kind = "text"

\* The error of the row of record r is raised inside a try block of its loader:
\* the period of a CPI row whose base period parsed, any value of a state-income
\* row.
Caught(r) ==
    \/ r.stage = "load_cpi_data" /\ Contains(r.row.base_period, "=")
    \/ r.stage = "load_state_income"

\* A warning of the running stage is in the log.
WarningLogged(stage) ==
    \E j \in 1..Len(log) : log[j].level = "warning" /\ log[j].exc.stage = stage

\* C11 as stated: every row that cannot be processed ends the run with the error
\* propagated; no further row is processed.
C11_EveryRowErrorIsFatal ==
    \A i \in 1..Len(rows) :
        RowError(rows[i]) =>
            /\ rows[i].outcome = "raised"
            /\ i = Len(rows)
            /\ exc # NoExc
            /\ pc \in {"except", "finally", "done"}

\* C11 as amended: a row that cannot be processed ends the run with the error
\* propagated and no further row processed, unless its error is raised inside the
\* try block of load_cpi_data or of load_state_income: then a warning is logged,
\* the row is skipped and the loader continues.  A row without an error never
\* raises and is never skipped with a warning.
C11_RowErrorIsFatalUnlessCaught ==
    \A i \in 1..Len(rows) :
        /\ (RowError(rows[i]) /\ ~Caught(rows[i])) =>
               /\ rows[i].outcome = "raised"
               /\ i = Len(rows)
               /\ exc # NoExc /\ exc.stage = rows[i].stage
               /\ pc \in {"except", "finally", "done"}
               /\ pc = "done" => raised = exc
        /\ (RowError(rows[i]) /\ Caught(rows[i])) =>
               /\ rows[i].outcome = "skipped"
               /\ WarningLogged(rows[i].stage)
               /\ i = Len(rows) => pc = rows[i].stage /\ exc = NoExc
        /\ ~RowError(rows[i]) => rows[i].outcome \in {"filtered", "appended", "written"}

\* load_state_income skipped a value that is no number, with a warning, and wrote
\* the next row.
C11_Witness ==
    /\ Len(rows) = 2
    /\ rows[1].stage = "load_state_income"
    /\ RowError(rows[1]) /\ rows[1].outcome = "skipped"
    /\ rows[2].outcome = "written"
    /\ state_income # {}

----------------------------------------------------------------------------
(* Claims about the labels the Region Resolver is given. *)

\* A label without a comma that is not one of the two hard-coded labels.
PlainLabel(s) == ~Contains(s, ",") /\ s \notin {UrbanAlaska, UrbanHawaii}

UnknownCode(code) == ~(Len(code) = 1 /\ code[1] \in DOMAIN state_map)

\* C17: a code of a label that is not in the lookup table is returned unchanged
\* by _normalize_state_name, and resolving the label leaves a region row named
\* by the code itself, whose id is cached under the code and returned at the
\* code's position; the call returns one id per code and nothing is raised.
C17_UnknownCodePassedThrough ==
    (call.made /\ Contains(call.name, ",")) =>
        LET codes == extract_states_from_area_name(call.name)
        IN  /\ Len(call.ids) = Len(codes)
            /\ raised = NoExc
            /\ \A i \in 1..Len(codes) :
                   UnknownCode(codes[i]) =>
                       /\ normalize_state_name(codes[i]) = codes[i]
                       /\ codes[i] \in DOMAIN region_map
                       /\ region_map[codes[i]] = call.ids[i]
                       /\ \E row \in regions :
                              row.name = codes[i] /\ row.id = call.ids[i]

\* "City, IL-XX" was resolved: Illinois got id 1 and the code XX, left as it is,
\* names the region with id 2.
C17_Witness ==
    /\ call.made
    /\ call.name = <<"City", ",", " ", "IL", "-", "XX">>
    /\ call.ids = <<1, 2>>
    /\ region_map[<<"XX">>] = 2
    /\ \E row \in regions : row.name = <<"XX">> /\ row.id = 2
    /\ \E row \in regions : row.name = <<"Illinois">> /\ row.id = 1

\* The state a hard-coded label stands for.
UrbanState(label) == IF label = UrbanAlaska THEN <<"Alaska">> ELSE <<"Hawaii">>

\* C18: resolving "Urban Alaska" returns exactly one id, that of the only region
\* row named "Alaska", and "Urban Hawaii" that of "Hawaii"; no region row and no
\* cache entry is ever named "Urban Alaska" or "Urban Hawaii".
C18_UrbanLabelsAreTheirStates ==
    /\ \A row \in regions : row.name \notin {UrbanAlaska, UrbanHawaii}
    /\ \A name \in DOMAIN region_map : name \notin {UrbanAlaska, UrbanHawaii}
    /\ (call.made /\ call.name \in {UrbanAlaska, UrbanHawaii}) =>
           /\ Len(call.ids) = 1
           /\ \E row \in regions :
                  row.name = UrbanState(call.name) /\ row.id = call.ids[1]
           /\ \A row \in regions :
                  row.name = UrbanState(call.name) => row.id = call.ids[1]
           /\ region_map[UrbanState(call.name)] = call.ids[1]

\* "Urban Hawaii" was resolved after "Honolulu, HI" and "Urban Alaska": it got
\* the id that Honolulu's state already had.
C18_Witness ==
    /\ call.made
    /\ call.name = UrbanHawaii
    /\ call.created = 0
    /\ Honolulu \in DOMAIN resolved
    /\ UrbanAlaska \in DOMAIN resolved
    /\ resolved[Honolulu] = call.ids
    /\ resolved[UrbanAlaska] # call.ids

----------------------------------------------------------------------------
(* Claims about the commits of a run. *)

\* The stages that write to the database.
Loaders == {Stages[i] : i \in 2..Len(Stages)}

\* C19 as stated: nothing is committed before load_state_income has finished,
\* and a run that fails leaves the committed database as it was before the run.
C19_NothingDurableBeforeLastStage ==
    /\ committed # EmptyDatabase =>
           \E i \in 1..Len(completed) : completed[i] = "load_state_income"
    /\ (pc = "done" /\ raised # NoExc) => committed = EmptyDatabase

\* C19, amended: the committed database changes only in the step in which a
\* loader returns, every loader that returns commits the tables as they are at
\* that moment, and no other step commits (so a failing stage commits nothing
\* and the commits of the stages before it stay).
C19_EveryLoaderCommits ==
    [][/\ committed' # committed =>
              pc \in Loaders /\ completed' = Append(completed, pc)
       /\ (pc \in Loaders /\ completed' = Append(completed, pc)) =>
              committed' = Snapshot(regions', time_periods', food_categories',
                                    cpi_categories', food_prices', cpi_values',
                                    state_food_sales', regional_income',
                                    state_income')]_vars

\* A run failed in load_state_income after that stage had written a row: the
\* rows of the stages before it are committed, the row of the failing stage is
\* gone.
C19_Witness ==
    /\ pc = "done"
    /\ raised # NoExc
    /\ raised.stage = "load_state_income"
    /\ \E i \in 1..Len(rows) :
           rows[i].stage = "load_state_income" /\ rows[i].outcome = "written"
    /\ committed.food_categories # EmptyMap
    /\ committed.regional_income # {}
    /\ committed.state_income = {}
    /\ state_income = {}

----------------------------------------------------------------------------
(* Claims about the stored observations. *)

\* The fact tables by the stage that writes them.
FactTables ==
    [load_food_prices |-> food_prices, load_cpi_data |-> cpi_values,
     load_state_food_sales |-> state_food_sales,
     load_regional_income |-> regional_income, load_state_income |-> state_income]

YearlyLoaders == {"load_state_food_sales", "load_regional_income", "load_state_income"}

\* The key of a row of a yearly CSV, by the caches of the running loader.
YearRowKey(row) == <<region_map[row.region], period_map[<<row.year, None>>]>>

\* The rows of the running yearly loader that were written.
WrittenRows == {i \in 1..Len(rows) : rows[i].outcome = "written"}

\* C12: no fact table holds two rows with the same key, and the row of a key
\* holds the values of the last write for the key (here: of the last row that a
\* yearly loader wrote).
C12_OneObservationPerKey ==
    /\ \A stage \in DOMAIN FactTables :
           \A r1 \in FactTables[stage], r2 \in FactTables[stage] :
               r1.key = r2.key => r1 = r2
    /\ (pc \in YearlyLoaders /\ WrittenRows # {}) =>
           LET last == CHOOSE i \in WrittenRows : \A j \in WrittenRows : j <= i
               key == YearRowKey(rows[last].row)
           IN  /\ key \in Keys(FactTables[pc])
               /\ Stored(FactTables[pc], key) = <<to_numeric(rows[last].row.value)>>

\* load_state_food_sales wrote 10 and then 20 for Illinois in 2020: the table
\* holds one row, with 20.
C12_Witness ==
    /\ pc = "load_state_food_sales"
    /\ Len(rows) = 2
    /\ rows[1].outcome = "written" /\ rows[1].row.value = Number(10)
    /\ rows[2].outcome = "written" /\ rows[2].row.value = Number(20)
    /\ YearRowKey(rows[1].row) = YearRowKey(rows[2].row)
    /\ Cardinality(state_food_sales) = 1
    /\ Stored(state_food_sales, YearRowKey(rows[2].row)) = <<Some(20)>>

----------------------------------------------------------------------------
(* Claims about the Period Resolver. *)

C14_MonthInRange ==
    \A row \in time_periods : row.month = None \/ row.month[1] \in 1..12

----------------------------------------------------------------------------
(* Claims about the dashboard. *)

\* The error of query q is displayed inline.
ShownInline(q) ==
    \E i \in 1..Len(dashboard.shown) :
        dashboard.shown[i].kind = "error" /\ dashboard.shown[i].query = q

\* C15 as stated: on every page, a query that raises has its exception caught
\* and displayed inline, and no exception leaves the script.
C15_QueryExceptionsShownInline ==
    dashboard.failed # "none" =>
        /\ ShownInline(dashboard.failed)
        /\ dashboard.escaped = NoExc

\* C15 as amended: the exception of a query is caught and displayed inline on the
\* Custom Query page, where the script goes on to its end; on every other page it
\* leaves the script, nothing is displayed for it by the script and the rest of
\* the page is not run.
C15_OnlyCustomQueryCatches ==
    dashboard.failed # "none" =>
        IF dashboard.page = "Custom Query"
        THEN /\ ShownInline(dashboard.failed)
             /\ dashboard.escaped = NoExc
             /\ dashboard.pc \in {"running", "done"}
        ELSE /\ ~ShownInline(dashboard.failed)
             /\ dashboard.escaped = [type |-> "Exception", stage |-> dashboard.failed]
             /\ dashboard.pc = "failed"
             /\ \A i \in 1..Len(dashboard.shown) : dashboard.shown[i].kind = "result"

\* The query of the Custom Query page raised, the error was displayed and the
\* script reached its footer.
C15_Witness ==
    /\ dashboard.page = "Custom Query"
    /\ dashboard.failed = "query"
    /\ ShownInline("query")
    /\ dashboard.pc = "done"

----------------------------------------------------------------------------
(* Claims about the number of statements of the fact-table stages. *)

\* The rows a stage has read; they are kept until the stage returns.
RowsOf(stage) == {i \in 1..Len(rows) : rows[i].stage = stage}

\* The written rows of a yearly loader that resolved to a key.
RowsOfKey(stage, key) ==
    {i \in 1..Len(rows) : /\ rows[i].stage = stage
                           /\ rows[i].outcome = "written"
                           /\ YearRowKey(rows[i].row) = key}

\* The keys a stage has executed its upsert for.
UpsertedKeys(stage) == {sk[2] : sk \in {x \in DOMAIN upserts : x[1] = stage}}

\* C20 as stated: every fact-table stage executes exactly one upsert per key.
C20_OneUpsertPerKey == \A sk \in DOMAIN upserts : upserts[sk] = 1

\* C20, amended: the two series loaders execute exactly one upsert per key of
\* their aggregation map; the three yearly loaders execute one upsert per row
\* they write, so a key has as many upserts as rows resolved to it (counted
\* while the stage runs or after it failed).  Until the connection is closed the
\* keys of a table are those its stage upserted.
C20_OneUpsertPerKeyOrPerRow ==
    /\ \A sk \in DOMAIN upserts :
           /\ sk[1] \in DOMAIN FactTables
           /\ upserts[sk] >= 1
           /\ sk[1] \notin YearlyLoaders => upserts[sk] = 1
           /\ (sk[1] \in YearlyLoaders /\ RowsOf(sk[1]) # {}) =>
                  upserts[sk] = Cardinality(RowsOfKey(sk[1], sk[2]))
    /\ pc # "done" =>
           \A stage \in DOMAIN FactTables :
               Keys(FactTables[stage]) = UpsertedKeys(stage)
    /\ finished.stage \in {"load_food_prices", "load_cpi_data"} =>
           UpsertedKeys(finished.stage) = DOMAIN finished.state_values

\* load_regional_income wrote two rows for the Midwest in 2020: two upserts
\* were executed for the one key.
C20_Witness ==
    /\ pc = "load_regional_income"
    /\ Len(rows) = 2
    /\ rows[1].outcome = "written" /\ rows[2].outcome = "written"
    /\ rows[1].row.region = Midwest /\ rows[2].row.region = Midwest
    /\ Cardinality(regional_income) = 1
    /\ \E sk \in DOMAIN upserts : sk[1] = "load_regional_income" /\ upserts[sk] = 2

----------------------------------------------------------------------------
(* Claims about the identity of regions. *)

\* The normalized names a label refers to: the state names of its codes, or the
\* label itself when it has none.
RegionNames(label) ==
    IF NormalizeLabel(label) # <<>> THEN NormalizeLabel(label) ELSE <<label>>

\* The ids given for a label are those of the rows named by its normalized names.
IdsMatchNames(label, ids) ==
    /\ Len(ids) = Len(RegionNames(label))
    /\ \A i \in 1..Len(ids) :
           \E row \in regions : row.id = ids[i] /\ row.name = RegionNames(label)[i]

\* C21: after any sequence of resolver calls region rows, ids and normalized
\* names correspond one to one: no two rows share a name or an id, every label
\* resolved so far (and the label of the last call) got the ids of the rows named
\* by its normalized names, whatever type was declared, so two references have
\* the same id exactly when their normalized names are equal.
C21_OneIdPerNormalizedName ==
    /\ \A r1 \in regions, r2 \in regions :
           (r1.id = r2.id) <=> (r1.name = r2.name)
    /\ \A label \in DOMAIN resolved : IdsMatchNames(label, resolved[label])
    /\ call.made => IdsMatchNames(call.name, call.ids)
    /\ \A name \in DOMAIN region_map :
           \E row \in regions : row.name = name /\ row.id = region_map[name]

\* Illinois was reached through the code of "Peoria, IL", through the first code
\* of the Chicago label and through its full name, always with one id; the
\* Midwest has another.
C21_Witness ==
    /\ {Peoria, Chicago, Illinois, Midwest} \subseteq DOMAIN resolved
    /\ resolved[Peoria] = resolved[Illinois]
    /\ resolved[Chicago][1] = resolved[Illinois][1]
    /\ resolved[Midwest] # resolved[Illinois]
    /\ Len(resolved[Chicago]) = 3

----------------------------------------------------------------------------
(* Claims about the granularity of periods. *)

\* C22: every period row is 'monthly' exactly when the call that created it had
\* a month, and 'yearly' exactly when it had none.
C22_MonthlyIffMonthPresent ==
    \A row \in time_periods :
        /\ (row.period_type = "monthly") <=> (row.month # None)
        /\ (row.period_type = "yearly") <=> (row.month = None)

----------------------------------------------------------------------------
(* Claims about a second run of the script. *)

\* C23: in a run of a new DatabaseETL over unchanged files, after a first run
\* that succeeded, no region row and no period row is ever added, every id the
\* caches hold is the one the first run's caches held, the keys of the fact
\* tables and the averaged values stay as they were, and when the run has ended
\* it has succeeded and every table has the rows and values the first run left.
C23_SecondRunChangesNothing ==
    (previous.runs >= 1 /\ previous.raised = NoExc) =>
        /\ regions = previous.database.regions
        /\ time_periods = previous.database.time_periods
        /\ \A name \in DOMAIN region_map :
               /\ name \in DOMAIN previous.region_map
               /\ region_map[name] = previous.region_map[name]
        /\ \A key \in DOMAIN period_map :
               /\ key \in DOMAIN previous.period_map
               /\ period_map[key] = previous.period_map[key]
        /\ food_prices = previous.database.food_prices
        /\ cpi_values = previous.database.cpi_values
        /\ Keys(state_food_sales) = Keys(previous.database.state_food_sales)
        /\ Keys(regional_income) = Keys(previous.database.regional_income)
        /\ Keys(state_income) = Keys(previous.database.state_income)
        /\ pc = "done" =>
               /\ raised = NoExc
               /\ committed = previous.database
               /\ region_map = previous.region_map
               /\ period_map = previous.period_map

\* The second run over files with rows for every fact table (two of them for
\* Illinois in the sales file) has ended: the database is as the first run left
\* it, with its yearly and monthly periods.
C23_Witness ==
    /\ previous.runs = 1 /\ previous.raised = NoExc
    /\ pc = "done" /\ raised = NoExc
    /\ Len(data.load_state_food_sales) = 2
    /\ committed = previous.database
    /\ committed.food_prices # {} /\ committed.cpi_values # {}
    /\ committed.state_income # {}
    /\ \E row \in committed.time_periods : row.month = None
    /\ \E row \in committed.time_periods : row.month # None
    /\ region_map = previous.region_map /\ region_map # EmptyMap

----------------------------------------------------------------------------
(* Claims about the entries a series row adds to the aggregation map. *)

\* C25: the ids returned for a label are pairwise different, and a food-price
\* row adds at most one entry to each of its keys.
C25_NoIdTwice ==
    /\ call.made =>
           \A i \in 1..Len(call.ids), j \in 1..Len(call.ids) :
               i # j => call.ids[i] # call.ids[j]
    /\ \A i \in 1..Len(rows) :
           (rows[i].stage = "load_food_prices" /\ rows[i].outcome = "appended") =>
               rows[i].appended <= Cardinality(FoodRowKeys(rows[i].row))

\* The keys of an aggregation map whose period is a year.
YearlyKeys(sv) ==
    {k \in DOMAIN sv : \E p \in time_periods : p.id = k[2] /\ p.month = None}

YearOf(period_id) == (CHOOSE p \in time_periods : p.id = period_id).year

\* The keys of the months of the year, region and item of a yearly key.
MonthlyKeysOf(sv, k) ==
    {m \in DOMAIN sv :
        /\ m[1] = k[1] /\ m[3] = k[3]
        /\ \E p \in time_periods :
               p.id = m[2] /\ p.month # None /\ p.year = YearOf(k[2])}

\* The accepted rows of the finished load for the region, year and item of a
\* yearly key.
AcceptedRows(k) ==
    SelectSeq(finished.rows,
              LAMBDA r :
                  /\ r.outcome = "appended"
                  /\ r.row.year = YearOf(k[2])
                  /\ r.row.item_code = k[3]
                  /\ \E i \in 1..Len(RegionNames(r.row.area_name)) :
                         region_map[RegionNames(r.row.area_name)[i]] = k[1])

\* The value a finished series loader stored for a key.
StoredNumber(k) ==
    IF finished.stage = "load_food_prices" THEN Stored(food_prices, k)
    ELSE Stored(cpi_values, k).value

\* C24: when a series loader has finished, the list of every yearly key has as
\* many entries as the lists of the months of its year, region and item
\* together, one entry per accepted row of that year, region and item, and the
\* value stored for the key is the mean of the values of those rows.
C24_YearlyIsMeanOfAcceptedRows ==
    finished.stage \in SeriesLoaders =>
        \A k \in YearlyKeys(finished.state_values) :
            LET raw == AcceptedRows(k)
            IN  /\ Len(finished.state_values[k]) =
                       SumLens(finished.state_values,
                               MonthlyKeysOf(finished.state_values, k))
                /\ Len(finished.state_values[k]) = Len(raw)
                /\ IsMeanOf(StoredNumber(k), [i \in 1..Len(raw) |-> raw[i].row.value.n])

----------------------------------------------------------------------------
(* Claims about the rows load_cpi_data skips. *)

\* C27: a step in which load_cpi_data skips a row for its period string leaves
\* the region rows, region_map, the period rows, period_map and the aggregation
\* map as they were.
C27_SkippedRowChangesNothing ==
    [][(/\ pc = "load_cpi_data"
        /\ Len(rows') = Len(rows) + 1
        /\ rows'[Len(rows')].outcome = "skipped") =>
           UNCHANGED <<regions, region_map, time_periods, period_map, state_values>>]_vars

----------------------------------------------------------------------------
(* Claims about the database after a failed run. *)

\* The tables as the connection sees them.
Visible ==
    Snapshot(regions, time_periods, food_categories, cpi_categories, food_prices,
             cpi_values, state_food_sales, regional_income, state_income)

\* The committed table of a fact-table stage.
CommittedFacts(stage) ==
    [load_food_prices |-> committed.food_prices, load_cpi_data |-> committed.cpi_values,
     load_state_food_sales |-> committed.state_food_sales,
     load_regional_income |-> committed.regional_income,
     load_state_income |-> committed.state_income][stage]

Completed(stage) == \E i \in 1..Len(completed) : completed[i] = stage

\* C26: a commit happens only in the step in which a stage returns, so neither
\* the failing stage nor the except and finally clauses commit anything; after
\* a run that failed in stage k the database is the committed one, stage k is
\* not among the completed stages, the fact table of every completed stage holds
\* exactly the keys that stage upserted, and the fact tables of stage k and of
\* the stages after it hold nothing.
C26_FailedRunKeepsCompletedStages ==
    /\ [](/\ (pc \in {"except", "finally"}) => ~Completed(exc.stage)
          /\ (pc = "done" /\ raised # NoExc) =>
                 /\ Visible = committed
                 /\ ~Completed(raised.stage)
                 /\ \A stage \in DOMAIN FactTables :
                        IF Completed(stage)
                        THEN Keys(CommittedFacts(stage)) = UpsertedKeys(stage)
                        ELSE CommittedFacts(stage) = {}
                 /\ (committed.food_categories # EmptyMap) =>
                        Completed("load_food_categories")
                 /\ (committed.regions # {} \/ committed.time_periods # {}) =>
                        \E stage \in DOMAIN FactTables : Completed(stage))
    /\ [][committed' # committed =>
              /\ pc \in Loaders
              /\ completed' = Append(completed, pc)
              /\ pc' # "except"]_vars

\* A run failed in load_regional_income after that stage had resolved the
\* Midwest: the sales of the stage before are committed, the region row of the
\* Midwest is gone from the database although its AUTO_INCREMENT value is used.
C26_Witness ==
    /\ pc = "done"
    /\ raised # NoExc
    /\ raised.stage = "load_regional_income"
    /\ Midwest \in DOMAIN region_map
    /\ \A row \in committed.regions : row.name # Midwest
    /\ committed.state_food_sales # {}
    /\ committed.regional_income = {}
    /\ regions = committed.regions
    /\ auto_increment.regions > Cardinality(regions) + 1

----------------------------------------------------------------------------
(* Claims about the caches of an object that is used again. *)

\* C28: while the connection is open, every id held in region_map denotes the
\* region row of that name and every id held in period_map the period row of
\* that year and month, in the database as the connection sees it.
C28_CachedIdsExist ==
    connection = "open" =>
        /\ \A name \in DOMAIN region_map :
               \E row \in regions : row.id = region_map[name] /\ row.name = name
        /\ \A key \in DOMAIN period_map :
               \E row \in time_periods :
                   /\ row.id = period_map[key]
                   /\ row.year = key[1] /\ row.month = key[2]

----------------------------------------------------------------------------
(* Claims about two loaders on one database. *)

----------------------------------------------------------------------------
(* Claims about the type of a region. *)

=========================================================================
